---- MODULE Spec2Model ----
(***************************************************************************)
(* Day-schedule partition engine of the DailyPlanner component             *)
(* (src/tailwind.config.cjs): a week of seven day partitions, each an      *)
(* ordered sequence of blocks {start, span, tasks}, with merge / unmerge,  *)
(* task CRUD, custom-range splice, propagation to all days and reset.      *)
(*                                                                         *)
(* JavaScript arrays are 0-based; sequences here are 1-based, so the       *)
(* JavaScript index i is the position i+1 of the model.                    *)
(***************************************************************************)
EXTENDS Integers, Sequences, FiniteSets, TLC

(* ------------------------------ bounds -------------------------------- *)
MaxSteps == 2        \* user actions per behaviour after the mount
MaxIdx == 2          \* block positions 1..MaxIdx (and the last one) are clicked
MaxDay == 1          \* days 0..MaxDay can be selected
MaxRepeat == 1       \* only the first MaxRepeat ids produced are ever repeated
MaxCuts == 3         \* hour boundaries a drawn partition may have
MaxCalls == 3        \* merge and split calls per behaviour on a drawn day
MaxTasks == 3        \* tasks a drawn block may hold
MaxLen == 4          \* characters of a drawn side of a time range, AM/PM apart
MaxEvents == 5       \* player events per behaviour
MaxVideos == 2       \* videos the search returns
MaxClock == 7        \* seconds the clock runs after the timer card is mounted
MaxSec == 2          \* seconds the underline is scrubbed to: 1..MaxSec
MaxPresses == 4      \* clicks and key presses on the timer card per behaviour

(* ------------------------- program constants -------------------------- *)
MINS_IN_DAY == 1440
HOURS == 24
BASE == 60

DAYS == <<"Sunday", "Monday", "Tuesday", "Wednesday", "Thursday", "Friday", "Saturday">>

DayNames == {DAYS[k] : k \in 1..Len(DAYS)}

(* ------------------------- sequence helpers --------------------------- *)
\* slots.slice(from-1): the elements at positions from..Len
SliceFrom(s, from) ==
    IF from > Len(s) THEN <<>> ELSE SubSeq(s, from, Len(s))

\* const x = v; F(x): v is evaluated once and F uses its value
Bind(v, F(_)) == CHOOSE r \in {F(x) : x \in {v}} : TRUE

(* ------------------- text as sequences of characters ----------------- *)
\* A JavaScript string is modelled as the sequence of its characters.
Digits == {"0", "1", "2", "3", "4", "5", "6", "7", "8", "9"}

DigitVal(c) ==
    CASE c = "0" -> 0 [] c = "1" -> 1 [] c = "2" -> 2 [] c = "3" -> 3 [] c = "4" -> 4
      [] c = "5" -> 5 [] c = "6" -> 6 [] c = "7" -> 7 [] c = "8" -> 8 [] c = "9" -> 9

\* the value Number/parseInt give for "not a number"; every parsed number is >= 0
NaN == -1

isNaN(x) == x = NaN

\* String.prototype.toLowerCase on the letters the inputs use
LowerChar(c) ==
    CASE c = "A" -> "a" [] c = "P" -> "p" [] c = "M" -> "m" [] c = "T" -> "t"
      [] c = "O" -> "o" [] OTHER -> c

toLowerCase(str) == [k \in 1..Len(str) |-> LowerChar(str[k])]

RECURSIVE trimStart(_)
trimStart(str) ==
    IF str # <<>> /\ Head(str) = " " THEN trimStart(Tail(str)) ELSE str

RECURSIVE trimEnd(_)
trimEnd(str) ==
    IF str # <<>> /\ str[Len(str)] = " " THEN trimEnd(SubSeq(str, 1, Len(str) - 1)) ELSE str

trim(str) == Bind(trimStart(str), LAMBDA t : trimEnd(t))

\* str.endsWith(two-character suffix)
endsWith(str, c1, c2) ==
    Len(str) >= 2 /\ str[Len(str) - 1] = c1 /\ str[Len(str)] = c2

dropLast2(str) == SubSeq(str, 1, Len(str) - 2)

\* replace(/[^\d:]/g, " ")
blankNonTime(str) ==
    [k \in 1..Len(str) |-> IF str[k] \in Digits \cup {":"} THEN str[k] ELSE " "]

\* replace(/\s+/g, " ")
RECURSIVE collapseSpaces(_)
collapseSpaces(str) ==
    IF Len(str) < 2 THEN str
    ELSE IF str[1] = " " /\ str[2] = " " THEN collapseSpaces(Tail(str))
         ELSE <<Head(str)>> \o collapseSpaces(Tail(str))

allDigits(str) == \A k \in 1..Len(str) : str[k] \in Digits

\* value of the first n characters of a string of digits
RECURSIVE numValUpTo(_, _)
numValUpTo(str, n) ==
    IF n = 0 THEN 0 ELSE numValUpTo(str, n - 1) * 10 + DigitVal(str[n])

\* value of a string of digits
numVal(str) == numValUpTo(str, Len(str))

\* the leading digits of str
RECURSIVE leadingDigits(_)
leadingDigits(str) ==
    IF str # <<>> /\ Head(str) \in Digits
    THEN <<Head(str)>> \o leadingDigits(Tail(str))
    ELSE <<>>

\* parseInt(str, 10) on a string of digits and colons
parseInt(str) ==
    Bind(leadingDigits(str), LAMBDA d : IF d = <<>> THEN NaN ELSE numVal(d))

\* position of the first occurrence of c in str, 0 when absent
RECURSIVE indexOf(_, _, _)
indexOf(str, c, k) ==
    IF k > Len(str) THEN 0
    ELSE IF str[k] = c THEN k ELSE indexOf(str, c, k + 1)

\* str.split(" ") of a string: the pieces between single spaces
RECURSIVE splitSpace(_)
splitSpace(str) ==
    Bind(indexOf(str, " ", 1), LAMBDA k :
        IF k = 0 THEN <<str>>
        ELSE <<SubSeq(str, 1, k - 1)>>
               \o Bind(SliceFrom(str, k + 1), LAMBDA rest : splitSpace(rest)))

\* /^\d{1,2}:\d{1,2}$/.test(str)
matchesHMM(str) ==
    Bind(indexOf(str, ":", 1), LAMBDA k :
        /\ k \in {2, 3}
        /\ Len(str) - k \in {1, 2}
        /\ \A x \in 1..Len(str) : x # k => str[x] \in Digits)

\* /^\d{3,4}$/.test(str)
matchesDigits34(str) ==
    Len(str) \in {3, 4} /\ allDigits(str)

Min(a, b) == IF a < b THEN a ELSE b
Max(a, b) == IF a > b THEN a ELSE b

(* -------------------------- parseTimeToMinutes ------------------------ *)
\* lines 38-50: the hour and minute read from the cleaned string
hourMinute(str) ==
    IF matchesHMM(str)
    THEN Bind(indexOf(str, ":", 1), LAMBDA colon :
            <<numVal(SubSeq(str, 1, colon - 1)), numVal(SliceFrom(str, colon + 1))>>)
    ELSE IF matchesDigits34(str)
    THEN Bind(numVal(str), LAMBDA n :
            IF Len(str) <= 2 THEN <<n, 0>> ELSE <<n \div 100, n % 100>>)
    ELSE Bind(splitSpace(str), LAMBDA parts :
            IF Len(parts) = 2 THEN <<parseInt(parts[1]), parseInt(parts[2])>>
            ELSE IF Len(parts) = 1 THEN <<parseInt(parts[1]), 0>>
            ELSE <<0, 0>>)

\* variant: hour and minute are not clamped
minuteOfDayUnclamped(hm, isAM, isPM) ==
    IF isNaN(hm[1]) \/ isNaN(hm[2]) THEN NaN
    ELSE LET h1 == IF isPM /\ hm[1] < 12 THEN hm[1] + 12 ELSE hm[1]
             h2 == IF isAM /\ h1 = 12 THEN 0 ELSE h1
         IN  h2 * 60 + hm[2]

\* lines 51-56: NaN check, AM/PM shift, clamping
minuteOfDay(hm, isAM, isPM) ==
    IF isNaN(hm[1]) \/ isNaN(hm[2]) THEN NaN
    ELSE LET h1 == IF isPM /\ hm[1] < 12 THEN hm[1] + 12 ELSE hm[1]
             h2 == IF isAM /\ h1 = 12 THEN 0 ELSE h1
             h == Max(0, Min(23, h2))
             m == Max(0, Min(59, hm[2]))
         IN  h * 60 + m

\* line 37: non-time characters blanked, blanks collapsed, trimmed
cleaned(str) ==
    Bind(blankNonTime(str), LAMBDA b : Bind(collapseSpaces(b), LAMBDA c : trim(c)))

parseTimeToMinutes(s) ==
    IF s = <<>> THEN NaN
    ELSE
      Bind(toLowerCase(s), LAMBDA low : Bind(trim(low), LAMBDA s0 :
      Bind(endsWith(s0, "a", "m"), LAMBDA isAM :
      Bind(IF isAM THEN trim(dropLast2(s0)) ELSE s0, LAMBDA s1 :
      Bind(endsWith(s1, "p", "m"), LAMBDA isPM :
      Bind(IF isPM THEN trim(dropLast2(s1)) ELSE s1, LAMBDA s2 :
      Bind(cleaned(s2), LAMBDA str :
      Bind(hourMinute(str), LAMBDA hm : minuteOfDay(hm, isAM, isPM)))))))))

\* variant: a colon separates the two sides as well
RECURSIVE splitRangeOnColon(_, _)
splitRangeOnColon(raw, piece) ==
    IF raw = <<>> THEN <<piece>>
    ELSE IF Head(raw) \in {"-", "~", "en-dash", ":"}
         THEN <<piece>> \o splitRangeOnColon(Tail(raw), <<>>)
    ELSE IF Len(raw) >= 2 /\ LowerChar(raw[1]) = "t" /\ LowerChar(raw[2]) = "o"
         THEN <<piece>> \o splitRangeOnColon(Tail(Tail(raw)), <<>>)
    ELSE splitRangeOnColon(Tail(raw), Append(piece, Head(raw)))

\* raw.split(/-|\u2013|~|to/i): the pieces between separators
RECURSIVE splitRange(_, _)
splitRange(raw, piece) ==
    IF raw = <<>> THEN <<piece>>
    ELSE IF Head(raw) \in {"-", "~", "en-dash"}
         THEN <<piece>> \o splitRange(Tail(raw), <<>>)
    ELSE IF Len(raw) >= 2 /\ LowerChar(raw[1]) = "t" /\ LowerChar(raw[2]) = "o"
         THEN <<piece>> \o splitRange(Tail(Tail(raw)), <<>>)
    ELSE splitRange(Tail(raw), Append(piece, Head(raw)))

\* variant: one block too many
defaultDayExtraHour ==
    [h \in 1..(HOURS + 1) |-> [start |-> (h - 1) * BASE, span |-> BASE, tasks |-> <<>>]]

(* ------------------------------ defaultDay ---------------------------- *)
defaultDay ==
    [h \in 1..HOURS |-> [start |-> (h - 1) * BASE, span |-> BASE, tasks |-> <<>>]]

\* variant: only the days after the first get a partition
defaultScheduleFromMonday ==
    [d \in DayNames |-> IF d = DAYS[1] THEN <<>> ELSE defaultDay]

defaultSchedule ==
    [d \in DayNames |-> defaultDay]

(* --------------------- replaceRangeWithSingleBlock -------------------- *)
\* outer while loop: position of the first block that overlaps [start, end),
\* or Len(slots)+1 when the loop runs off the end
RECURSIVE FirstOverlap(_, _, _, _)
FirstOverlap(slots, start, end, i) ==
    IF i > Len(slots) THEN i
    ELSE IF slots[i].start + slots[i].span <= start \/ slots[i].start >= end
         THEN FirstOverlap(slots, start, end, i + 1)
         ELSE i

\* inner while loop: position of the first block at or after j whose end
\* reaches end, or Len(slots)+1 when there is none
RECURSIVE ScanEnd(_, _, _)
ScanEnd(slots, end, j) ==
    IF j > Len(slots) THEN j
    ELSE IF slots[j].start + slots[j].span >= end THEN j
         ELSE ScanEnd(slots, end, j + 1)

\* variant: the copy of an untouched block loses its tasks
copyBlockNoTasks(s) == [start |-> s.start, span |-> s.span, tasks |-> <<>>]

\* { ...s, tasks: [...s.tasks] }: a block outside the range is copied as it is
copyBlock(s) == [start |-> s.start, span |-> s.span, tasks |-> s.tasks]

copyBlocks(blocks) == [k \in 1..Len(blocks) |-> copyBlock(blocks[k])]

\* variant: the left remainder is emitted without the block's tasks
leftRemainderNoTasks(s, start) ==
    IF s.start < start
    THEN <<[start |-> s.start, span |-> start - s.start, tasks |-> <<>>]>>
    ELSE <<>>

\* variant: a left remainder is emitted also when the block starts at start
leftRemainderAtEdge(s, start) ==
    IF s.start <= start
    THEN <<[start |-> s.start, span |-> start - s.start, tasks |-> s.tasks]>>
    ELSE <<>>

\* the part of the first overlapping block s that lies before start
leftRemainder(s, start) ==
    IF s.start < start
    THEN <<[start |-> s.start, span |-> start - s.start, tasks |-> s.tasks]>>
    ELSE <<>>

\* variant: the right remainder keeps the whole span of the block it is cut from
rightRemainderFullSpan(slots, m, end) ==
    LET over == IF m <= Len(slots) THEN slots[m].start + slots[m].span - end ELSE 0
    IN  IF over > 0
        THEN <<[start |-> end, span |-> slots[m].span, tasks |-> slots[m].tasks]>>
        ELSE <<>>

\* variant: the right remainder also collects the tasks of the block before m
rightRemainderKeepsInterior(slots, m, end) ==
    LET over == IF m <= Len(slots) THEN slots[m].start + slots[m].span - end ELSE 0
    IN  IF over > 0
        THEN <<[start |-> end, span |-> over,
                tasks |-> (IF m > 1 THEN slots[m - 1].tasks ELSE <<>>) \o slots[m].tasks]>>
        ELSE <<>>

\* variant: the right remainder is emitted without the block's tasks
rightRemainderNoTasks(slots, m, end) ==
    LET over == IF m <= Len(slots) THEN slots[m].start + slots[m].span - end ELSE 0
    IN  IF over > 0
        THEN <<[start |-> end, span |-> over, tasks |-> <<>>]>>
        ELSE <<>>

\* the part after end of the block at position m, the first whose end reaches
\* end (m = Len(slots)+1: no block reaches end)
rightRemainder(slots, m, end) ==
    LET over == IF m <= Len(slots) THEN slots[m].start + slots[m].span - end ELSE 0
    IN  IF over > 0
        THEN <<[start |-> end, span |-> over, tasks |-> slots[m].tasks]>>
        ELSE <<>>

replaceRangeWithSingleBlock(slots, start, span, tasksForNewBlock) ==
    LET end == start + span
        i == FirstOverlap(slots, start, end, 1)
    IN  IF i > Len(slots) THEN copyBlocks(slots)
        ELSE
          LET m == ScanEnd(slots, end, i)
              j == IF m <= Len(slots) THEN m + 1 ELSE m
          IN  copyBlocks(SubSeq(slots, 1, i - 1))
                \o leftRemainder(slots[i], start)
                \o <<[start |-> start, span |-> span, tasks |-> tasksForNewBlock]>>
                \o rightRemainder(slots, m, end)
                \o copyBlocks(SliceFrom(slots, j))

\* variant: the merged block lists the right block's tasks first
mergeSlotsRightFirst(slots, i) ==
    IF i >= Len(slots) THEN slots
    ELSE LET a == slots[i]
             b == slots[i + 1]
         IN  IF a.start + a.span # b.start THEN slots
             ELSE SubSeq(slots, 1, i - 1)
                    \o <<[start |-> a.start, span |-> a.span + b.span,
                          tasks |-> b.tasks \o a.tasks]>>
                    \o SliceFrom(slots, i + 2)

\* variant: the last block is merged into the block before it
mergeSlotsLastWithPrevious(slots, i) ==
    IF i > Len(slots) THEN slots
    ELSE IF i = Len(slots)
    THEN IF i < 2 THEN slots
         ELSE SubSeq(slots, 1, i - 2)
                \o <<[start |-> slots[i - 1].start,
                      span |-> slots[i - 1].span + slots[i].span,
                      tasks |-> slots[i - 1].tasks \o slots[i].tasks]>>
    ELSE LET a == slots[i]
             b == slots[i + 1]
         IN  IF a.start + a.span # b.start THEN slots
             ELSE SubSeq(slots, 1, i - 1)
                    \o <<[start |-> a.start, span |-> a.span + b.span,
                          tasks |-> a.tasks \o b.tasks]>>
                    \o SliceFrom(slots, i + 2)

(* ----------------------------- mergeSlots ----------------------------- *)
mergeSlots(slots, i) ==
    IF i >= Len(slots) THEN slots
    ELSE LET a == slots[i]
             b == slots[i + 1]
         IN  IF a.start + a.span # b.start THEN slots
             ELSE SubSeq(slots, 1, i - 1)
                    \o <<[start |-> a.start, span |-> a.span + b.span,
                          tasks |-> a.tasks \o b.tasks]>>
                    \o SliceFrom(slots, i + 2)

\* variant: the tasks go to the remainder instead of the head
unmergeSlotTasksOnRemainder(slots, i) ==
    IF i > Len(slots) \/ slots[i].span <= BASE THEN slots
    ELSE LET s == slots[i]
             first == [start |-> s.start, span |-> BASE, tasks |-> <<>>]
             second == [start |-> s.start + BASE, span |-> s.span - BASE, tasks |-> s.tasks]
         IN  SubSeq(slots, 1, i - 1) \o <<first, second>> \o SliceFrom(slots, i + 1)

\* variant: a block of exactly one hour is split as well
unmergeSlotSplitsHour(slots, i) ==
    IF i > Len(slots) \/ slots[i].span < BASE THEN slots
    ELSE LET s == slots[i]
             first == [start |-> s.start, span |-> BASE, tasks |-> s.tasks]
             second == [start |-> s.start + BASE, span |-> s.span - BASE, tasks |-> <<>>]
         IN  SubSeq(slots, 1, i - 1) \o <<first, second>> \o SliceFrom(slots, i + 1)

\* variant: the remainder is cut into one-hour blocks
unmergeSlotIntoHours(slots, i) ==
    IF i > Len(slots) \/ slots[i].span <= BASE THEN slots
    ELSE LET s == slots[i]
             n == s.span \div BASE
             first == [start |-> s.start, span |-> BASE, tasks |-> s.tasks]
             rest == [k \in 1..(n - 1) |->
                        [start |-> s.start + k * BASE,
                         span |-> IF k = n - 1 THEN s.span - k * BASE ELSE BASE,
                         tasks |-> <<>>]]
         IN  SubSeq(slots, 1, i - 1) \o <<first>> \o rest \o SliceFrom(slots, i + 1)

\* variant: the remainder keeps the whole span of the split block
unmergeSlotFullSpan(slots, i) ==
    IF i > Len(slots) \/ slots[i].span <= BASE THEN slots
    ELSE LET s == slots[i]
             first == [start |-> s.start, span |-> BASE, tasks |-> s.tasks]
             second == [start |-> s.start + BASE, span |-> s.span, tasks |-> <<>>]
         IN  SubSeq(slots, 1, i - 1) \o <<first, second>> \o SliceFrom(slots, i + 1)

\* variant: the remainder keeps a copy of the tasks as well
unmergeSlotCopiesTasks(slots, i) ==
    IF i > Len(slots) \/ slots[i].span <= BASE THEN slots
    ELSE LET s == slots[i]
             first == [start |-> s.start, span |-> BASE, tasks |-> s.tasks]
             second == [start |-> s.start + BASE, span |-> s.span - BASE, tasks |-> s.tasks]
         IN  SubSeq(slots, 1, i - 1) \o <<first, second>> \o SliceFrom(slots, i + 1)

(* ----------------------------- unmergeSlot ---------------------------- *)
unmergeSlot(slots, i) ==
    IF i > Len(slots) \/ slots[i].span <= BASE THEN slots
    ELSE LET s == slots[i]
             first == [start |-> s.start, span |-> BASE, tasks |-> s.tasks]
             second == [start |-> s.start + BASE, span |-> s.span - BASE, tasks |-> <<>>]
         IN  SubSeq(slots, 1, i - 1) \o <<first, second>> \o SliceFrom(slots, i + 1)

(* ------------------------------ task ledger --------------------------- *)
\* variant: the new task is put in front of the block's tasks
addTaskToFront(slots, i, id, text) ==
    [slots EXCEPT ![i].tasks = <<[id |-> id, text |-> text, done |-> FALSE]>> \o @]

addTaskTo(slots, i, id, text) ==
    [slots EXCEPT ![i].tasks = @ \o <<[id |-> id, text |-> text, done |-> FALSE]>>]

\* {...t, ...patch} with patch = {done: v} or {text: v}
applyPatch(t, patch) ==
    IF patch.field = "done" THEN [t EXCEPT !.done = patch.value]
    ELSE [t EXCEPT !.text = patch.value]

\* variant: the task is patched in whichever block of the day holds the id
updateTaskInAnyBlock(slots, i, tid, patch) ==
    [b \in 1..Len(slots) |->
        [slots[b] EXCEPT !.tasks =
            [k \in 1..Len(@) |-> IF @[k].id = tid THEN applyPatch(@[k], patch) ELSE @[k]]]]

updateTaskIn(slots, i, tid, patch) ==
    [slots EXCEPT ![i].tasks =
        [k \in 1..Len(@) |-> IF @[k].id = tid THEN applyPatch(@[k], patch) ELSE @[k]]]

\* variant: the tasks after the removed one go as well
RECURSIVE withoutIdAndAfter(_, _)
withoutIdAndAfter(tasks, tid) ==
    IF tasks = <<>> THEN <<>>
    ELSE IF Head(tasks).id # tid THEN <<Head(tasks)>> \o withoutIdAndAfter(Tail(tasks), tid)
         ELSE <<>>

RECURSIVE withoutId(_, _)
withoutId(tasks, tid) ==
    IF tasks = <<>> THEN <<>>
    ELSE IF Head(tasks).id # tid THEN <<Head(tasks)>> \o withoutId(Tail(tasks), tid)
         ELSE withoutId(Tail(tasks), tid)

removeTaskFrom(slots, i, tid) ==
    [slots EXCEPT ![i].tasks = withoutId(@, tid)]

\* variant: a copy starts unticked
makeCopiesUndone(arr, ids) ==
    [k \in 1..Len(arr) |-> [id |-> ids[k], text |-> arr[k].text, done |-> FALSE]]

\* variant: only the first task is copied
makeCopiesFirstOnly(arr, ids) ==
    [k \in 1..(IF arr = <<>> THEN 0 ELSE 1) |-> [arr[k] EXCEPT !.id = ids[k]]]

(* ------------------------------- makeCopies --------------------------- *)
\* arr.map((t) => ({ ...t, id: <random id> })); ids[k] is the id drawn for arr[k]
makeCopies(arr, ids) ==
    [k \in 1..Len(arr) |-> [arr[k] EXCEPT !.id = ids[k]]]

\* body of the for loop of applyBlockToAllDays for one day; ids are the ids
\* Math.random yields for this day's copies
applyToDay(slots, srcBlock, mode, ids) ==
    LET initialTasks == IF mode = "replace" THEN makeCopies(srcBlock.tasks, ids) ELSE <<>>
        reshaped == replaceRangeWithSingleBlock(slots, srcBlock.start, srcBlock.span, initialTasks)
    IN  IF mode = "append"
        THEN [k \in 1..Len(reshaped) |->
                IF reshaped[k].start = srcBlock.start /\ reshaped[k].span = srcBlock.span
                THEN [reshaped[k] EXCEPT !.tasks = @ \o makeCopies(srcBlock.tasks, ids)]
                ELSE reshaped[k]]
        ELSE reshaped

(* -------------------------------- storage ----------------------------- *)
\* localStorage["dailyPlanner.schedule.v8"]: absent, a text that is not JSON,
\* or the JSON text of a schedule
Missing == [kind |-> "missing", value |-> <<>>]
Garbage == [kind |-> "text", value |-> <<>>]

\* JSON.stringify of a schedule: numbers, strings and booleans round-trip
JSONstringify(v) == [kind |-> "json", value |-> v]

\* JSON.parse throws a SyntaxError exactly on a text that is not JSON
JSONparseThrows(saved) == saved.kind # "json"
JSONparse(saved) == saved.value

(* -------------------------------- state ------------------------------- *)
VARIABLES
    status,       \* "unmounted", "mounted", or "error" (the initializer threw)
    storage,      \* the stored snapshot, read by the load and written by the autosave
    schedule,     \* useState schedule: day name -> partition
    selectedDay,  \* useState selectedDay, 0..6 (the planner is opened on a Sunday)
    nextId,       \* number of distinct ids Math.random has produced, plus one
    collisions,   \* number of times Math.random repeated an earlier id (0 or 1)
    last,         \* the last engine call: its arguments and the schedule before it
    steps,        \* user actions so far
    timer,        \* the autosave effect: the timeout that is set and the effect still to run
    rendered      \* the schedules the component has rendered so far

plannerVars == <<status, storage, schedule, selectedDay, nextId, collisions, last, steps,
                 timer, rendered>>

\* the music player (MusicPlayer, a component of its own next to the planner)
VARIABLES
    playlists,    \* the playlists object: its keys in key order, each with its tracks
    activeName,   \* name of the active playlist
    idxMap,       \* current index by playlist name (a name may be missing)
    repeatByName, \* repeat mode by playlist name (a name may be missing)
    yt,           \* the YT.Player: whether it was created, what its handlers closed
                  \* over, the video it holds and its playback state
    recent,       \* lastAdvanceRef is less than 700 ms old
    mlast,        \* the last player event and the state it found
    msteps        \* number of player events so far

playerVars == <<playlists, activeName, idxMap, repeatByName, yt, recent, mlast, msteps>>

\* the timer (TimerCard, a component of its own)
VARIABLES
    card,         \* the useState values of the last render
    onKey,        \* the render whose onKey is the window's keydown listener
    alarmRef,     \* alarmRef.current.stopTimer and the timeouts that are set
    clock,        \* Date.now(), in ms since the mount
    tlast,        \* the last timer event and the state it found
    tsteps        \* number of clicks and key presses so far

timerVars == <<card, onKey, alarmRef, clock, tlast, tsteps>>

widgetVars == <<playerVars, timerVars>>

vars == <<plannerVars, widgetVars>>

(* ------------------------- the music player's state ------------------- *)
DefaultName == <<"D", "e", "f", "a", "u", "l", "t">>
Untitled == <<"U", "n", "t", "i", "t", "l", "e", "d">>

\* a track is given by its videoId, a positive number; NoVideo: null
NoVideo == 0

\* an object without keys
NoKeys == [x \in {} |-> 0]

\* what handleEnded of one render closes over
closureOf(playlist, repeatMode, name) ==
    [playlist |-> playlist, repeatMode |-> repeatMode, activeName |-> name]

\* playerRef.current is null and nothing was loaded
NoYT == [made |-> FALSE, closure |-> closureOf(<<>>, "off", DefaultName),
         video |-> NoVideo, state |-> "unstarted"]

\* the useState initializers with nothing stored: { Default: [] }, "Default", {}, {}
DefaultPlaylists == <<[name |-> DefaultName, tracks |-> <<>>]>>

Snapshot(pl, an, im, rb, y, r) ==
    [playlists |-> pl, activeName |-> an, idxMap |-> im, repeatByName |-> rb, yt |-> y,
     recent |-> r]

NoEvent ==
    [op |-> "none", arg |-> <<>>,
     pre |-> Snapshot(DefaultPlaylists, DefaultName, NoKeys, NoKeys, NoYT, FALSE)]

InitPlayer ==
    /\ playlists = DefaultPlaylists
    /\ activeName = DefaultName
    /\ idxMap = NoKeys
    /\ repeatByName = NoKeys
    /\ yt = NoYT
    /\ recent = FALSE
    /\ mlast = NoEvent
    /\ msteps = 0

(* ----------------------------- the timer's state ---------------------- *)
\* the useState initializers of lines 115-128 and 229 with nothing stored;
\* buf holds the six digits HHMMSS as a number
FreshCard ==
    [editing |-> TRUE, buf |-> 0, targetMs |-> 0, running |-> FALSE, endTs |-> 0,
     now |-> 0, lastStartMs |-> 0, ended |-> FALSE, caretOn |-> FALSE]

\* line 129: no timeout is set, stopTimer is null (0)
NoAlarm == [timeouts |-> <<>>, stopTimer |-> 0]

TimerSnapshot(c, k, a, t) == [card |-> c, onKey |-> k, alarmRef |-> a, clock |-> t]

NoTimerEvent ==
    [op |-> "none", arg |-> 0, pre |-> TimerSnapshot(FreshCard, FreshCard, NoAlarm, 0)]

InitTimerCard ==
    /\ card = FreshCard
    /\ onKey = FreshCard
    /\ alarmRef = NoAlarm
    /\ clock = 0
    /\ tlast = NoTimerEvent
    /\ tsteps = 0

InitWidgets == InitPlayer /\ InitTimerCard

NoSchedule == [d \in DayNames |-> <<>>]

(* ------------------------------- autosave ----------------------------- *)
\* timer.armed: the timeouts of line 93 that are set, oldest first, each given
\* by the schedule its callback closes over; timer.own: the timeout whose id
\* the last effect run holds for its cleanup is still set (it is then the last
\* of timer.armed); timer.effect: the effect of a render that has not run yet and the
\* schedule of that render
Off == [set |-> FALSE, value |-> NoSchedule]
On(w) == [set |-> TRUE, value |-> w]
NoTimer == [armed |-> <<>>, own |-> FALSE, effect |-> Off]

\* variant: the cleanup does not clear the timeout of the previous render
FlushedWithoutCleanup ==
    IF timer.effect.set
    THEN [armed |-> Append(timer.armed, timer.effect.value), own |-> TRUE, effect |-> Off]
    ELSE timer

\* the pending effect runs: its cleanup clears the timeout of the previous
\* render (line 96) and a new timeout is set (line 93)
Flushed ==
    IF timer.effect.set
    THEN [armed |-> Append(IF timer.own THEN SubSeq(timer.armed, 1, Len(timer.armed) - 1)
                                        ELSE timer.armed,
                           timer.effect.value),
          own |-> TRUE, effect |-> Off]
    ELSE timer

\* setSchedule with a new object: the pending effect is run before the new
\* render, and the new render leaves its effect to run ([schedule] changed)
Render ==
    /\ timer' = [Flushed EXCEPT !.effect = On(schedule')]
    /\ rendered' = rendered \cup {schedule'}

\* a render with the same schedule object: the pending effect is run, no new one
Rerender ==
    /\ timer' = Flushed
    /\ rendered' = rendered

\* the handler returns without setting state
NoRender == UNCHANGED <<timer, rendered>>

NoCall == [op |-> "none", day |-> "", idx |-> 0, mode |-> "", start |-> 0, span |-> 0,
           supplied |-> NoSchedule, minted |-> <<>>, raw |-> <<>>,
           patch |-> [field |-> "", done |-> FALSE, text |-> <<>>],
           pre |-> NoSchedule, done |-> FALSE]

\* texts typed into the task prompt and the task text field
Texts == {<<"a">>}

Task(id, text, done) == [id |-> id, text |-> text, done |-> done]

\* A week saved by an earlier session: on Sunday a task was added to [60,120);
\* on Monday the custom range 0:30 - 2:30 was created and given a task; on
\* Tuesday a task was added to [60,120) and ticked.
savedWeek ==
    [d \in DayNames |->
        IF d = "Sunday" THEN [defaultDay EXCEPT ![2].tasks = <<Task(1, <<"a">>, FALSE)>>]
        ELSE IF d = "Monday"
        THEN <<[start |-> 0, span |-> 30, tasks |-> <<>>],
               [start |-> 30, span |-> 120, tasks |-> <<Task(2, <<"b">>, FALSE)>>],
               [start |-> 150, span |-> 30, tasks |-> <<>>]>> \o SubSeq(defaultDay, 4, HOURS)
        ELSE IF d = "Tuesday" THEN [defaultDay EXCEPT ![2].tasks = <<Task(3, <<"b">>, TRUE)>>]
        ELSE defaultDay]

\* ids occurring in a partition / in a week
IdsOfTasks(tasks) == {tasks[k].id : k \in 1..Len(tasks)}
IdsOfDaySlots(slots) == UNION {IdsOfTasks(slots[k].tasks) : k \in 1..Len(slots)}
IdsOfWeek(w) == UNION {IdsOfDaySlots(w[d]) : d \in DayNames}

Init ==
    /\ status = "unmounted"
    /\ storage \in {Missing, Garbage, JSONstringify(savedWeek)}
    /\ schedule = NoSchedule
    /\ selectedDay = 0
    /\ nextId = IF storage.kind = "json" THEN Cardinality(IdsOfWeek(storage.value)) + 1 ELSE 1
    /\ collisions = 0
    /\ last = NoCall
    /\ steps = 0
    /\ timer = NoTimer
    /\ rendered = {}
    /\ InitWidgets

\* the useState initializer of schedule (first render)
Mount ==
    /\ status = "unmounted"
    /\ IF storage.kind = "missing"
       THEN status' = "mounted" /\ schedule' = defaultSchedule /\ Render
       ELSE IF JSONparseThrows(storage)
            THEN status' = "error" /\ schedule' = schedule /\ NoRender
            ELSE status' = "mounted" /\ schedule' = JSONparse(storage) /\ Render
    /\ UNCHANGED <<storage, selectedDay, nextId, collisions, last, steps>>
    /\ UNCHANGED widgetVars

Ready == status = "mounted" /\ steps < MaxSteps

dayName == DAYS[selectedDay + 1]
daySlots == schedule[dayName]

\* the block positions the user acts on
Idx(slots) == {i \in 1..Len(slots) : i <= MaxIdx \/ i = Len(slots)}

\* variant: a day holding a task id of the selected day is replaced as well
setDaySlotsSharedIds(newSlots) ==
    schedule' = [d \in DayNames |->
                    IF d = dayName
                         \/ IdsOfDaySlots(schedule[d]) \cap IdsOfDaySlots(daySlots) # {}
                    THEN newSlots ELSE schedule[d]]

\* setDaySlots(updater): only the selected day's entry is replaced
setDaySlots(newSlots) ==
    schedule' = [schedule EXCEPT ![dayName] = newSlots]

Call(op, i) ==
    [NoCall EXCEPT !.op = op, !.day = dayName, !.idx = i, !.pre = schedule, !.done = TRUE]

Step == steps' = steps + 1

SelectDay ==
    /\ Ready
    /\ \E d \in 0..MaxDay : selectedDay' = d
    /\ Step
    /\ Rerender
    /\ UNCHANGED <<status, storage, schedule, nextId, collisions, last>>
    /\ UNCHANGED widgetVars

MergeSlots ==
    /\ Ready
    /\ \E i \in Idx(daySlots) :
          /\ setDaySlots(mergeSlots(daySlots, i))
          /\ last' = Call("merge", i)
    /\ Step
    /\ Render
    /\ UNCHANGED <<status, storage, selectedDay, nextId, collisions>>
    /\ UNCHANGED widgetVars

UnmergeSlot ==
    /\ Ready
    /\ \E i \in Idx(daySlots) :
          /\ setDaySlots(unmergeSlot(daySlots, i))
          /\ last' = Call("unmerge", i)
    /\ Step
    /\ Render
    /\ UNCHANGED <<status, storage, selectedDay, nextId, collisions>>
    /\ UNCHANGED widgetVars

(* ------------------------------- Math.random ------------------------- *)
\* The ids n successive calls of Math.random().toString(36).slice(2, 9) can
\* give when c-1 distinct ids were produced before: id number c, c+1, ... when
\* every call gives a new value, or, at one call p, a value v produced before
\* (by an earlier session, an earlier operation or an earlier call of the batch).
FreshIds(n, c) == [k \in 1..n |-> c + k - 1]

CollidingIds(n, c, p, v) ==
    [k \in 1..n |-> IF k < p THEN c + k - 1 ELSE IF k = p THEN v ELSE c + k - 2]

RandomIds(n, c, mayCollide) ==
    {FreshIds(n, c)}
      \cup (IF mayCollide
            THEN UNION {{CollidingIds(n, c, p, v) : v \in 1..Min(MaxRepeat, c + p - 2)} : p \in 1..n}
            ELSE {})

IsFresh(ids, c) == ids = FreshIds(Len(ids), c)

\* bookkeeping of the id supply after drawing ids
Drawn(ids) ==
    /\ nextId' = IF IsFresh(ids, nextId) THEN nextId + Len(ids) ELSE nextId + Len(ids) - 1
    /\ collisions' = IF IsFresh(ids, nextId) THEN collisions ELSE collisions + 1

(* -------------------------------- tasks ------------------------------- *)
AddTask ==
    /\ Ready
    /\ \E i \in Idx(daySlots), text \in Texts \cup {<<>>} :
          IF text = <<>>
          THEN /\ UNCHANGED <<schedule, nextId, collisions>>
               /\ NoRender
               /\ last' = Call("addTaskCancelled", i)
          ELSE \E ids \in RandomIds(1, nextId, collisions = 0) :
                 /\ setDaySlots(addTaskTo(daySlots, i, ids[1], text))
                 /\ Render
                 /\ Drawn(ids)
                 /\ last' = [Call("addTask", i) EXCEPT !.minted = ids, !.raw = text]
    /\ Step
    /\ UNCHANGED <<status, storage, selectedDay>>
    /\ UNCHANGED widgetVars

TaskIds(slots, i) == {slots[i].tasks[k].id : k \in 1..Len(slots[i].tasks)}

Patches(t) ==
    {[field |-> "done", value |-> ~t.done]}
      \cup {[field |-> "text", value |-> x] : x \in (Texts \cup {<<>>}) \ {t.text}}

\* the patch argument as the record of the last call keeps it
Patched(patch) ==
    [field |-> patch.field,
     done |-> IF patch.field = "done" THEN patch.value ELSE FALSE,
     text |-> IF patch.field = "text" THEN patch.value ELSE <<>>]

UpdateTask ==
    /\ Ready
    /\ \E i \in Idx(daySlots) :
          \E k \in 1..Len(daySlots[i].tasks) :
            \E patch \in Patches(daySlots[i].tasks[k]) :
              /\ setDaySlots(updateTaskIn(daySlots, i, daySlots[i].tasks[k].id, patch))
              /\ last' = [Call("updateTask", i) EXCEPT !.minted = <<daySlots[i].tasks[k].id>>,
                                                      !.patch = Patched(patch)]
    /\ Step
    /\ Render
    /\ UNCHANGED <<status, storage, selectedDay, nextId, collisions>>
    /\ UNCHANGED widgetVars

RemoveTask ==
    /\ Ready
    /\ \E i \in Idx(daySlots) :
          \E tid \in TaskIds(daySlots, i) :
            /\ setDaySlots(removeTaskFrom(daySlots, i, tid))
            /\ last' = [Call("removeTask", i) EXCEPT !.minted = <<tid>>]
    /\ Step
    /\ Render
    /\ UNCHANGED <<status, storage, selectedDay, nextId, collisions>>
    /\ UNCHANGED widgetVars

(* --------------------------- applyBlockToAllDays ---------------------- *)
\* the ids drawn for day number d (1..7) when each day gets n copies
IdsOfDay(ids, d, n) == SubSeq(ids, (d - 1) * n + 1, d * n)

DayNo(name) == CHOOSE k \in 1..Len(DAYS) : DAYS[k] = name

\* variant: an index that designates no block is taken as the nearest block,
\* whose tasks are then copied with their ids
applyBlockToAllDaysClampsIndex(prev, srcDay, blockIndex, mode, ids) ==
    LET srcBlock == prev[srcDay][Max(1, Min(Len(prev[srcDay]), blockIndex))]
        n == Len(srcBlock.tasks)
    IN  [d \in DayNames |->
            applyToDay(prev[d], srcBlock, mode,
                       IF blockIndex \in 1..Len(prev[srcDay])
                       THEN IdsOfDay(ids, DayNo(d), n)
                       ELSE [k \in 1..n |-> srcBlock.tasks[k].id])]

applyBlockToAllDays(prev, srcDay, blockIndex, mode, ids) ==
    IF blockIndex \notin 1..Len(prev[srcDay]) THEN prev
    ELSE LET srcBlock == prev[srcDay][blockIndex]
             n == Len(srcBlock.tasks)
         IN  [d \in DayNames |-> applyToDay(prev[d], srcBlock, mode, IdsOfDay(ids, DayNo(d), n))]

\* applyBlockToAllDays(i, mode) on a block of the selected day
applyBlock(i, mode) ==
    LET src == daySlots[i]
        n == Len(src.tasks)
    IN  \E ids \in RandomIds(Len(DAYS) * n, nextId, collisions = 0) :
          /\ schedule' = applyBlockToAllDays(schedule, dayName, i, mode, ids)
          /\ Drawn(ids)
          /\ last' = [Call("apply", i) EXCEPT
                        !.mode = mode, !.start = src.start, !.span = src.span,
                        !.minted = ids,
                        !.supplied = [d \in DayNames |->
                            IF mode = "replace"
                            THEN makeCopies(src.tasks, IdsOfDay(ids, DayNo(d), n))
                            ELSE <<>>]]

ApplyBlockToAllDays ==
    /\ Ready
    /\ \E i \in Idx(daySlots), mode \in {"replace", "append"} : applyBlock(i, mode)
    /\ Step
    /\ Render
    /\ UNCHANGED <<status, storage, selectedDay>>
    /\ UNCHANGED widgetVars

(* ------------------------------- reset -------------------------------- *)
ResetSelectedDay ==
    /\ Ready
    /\ \E confirmed \in BOOLEAN :
          IF confirmed
          THEN setDaySlots(defaultDay) /\ Render /\ last' = Call("reset", 0)
          ELSE UNCHANGED schedule /\ NoRender /\ last' = Call("resetDeclined", 0)
    /\ Step
    /\ UNCHANGED <<status, storage, selectedDay, nextId, collisions>>
    /\ UNCHANGED widgetVars

(* ---------------------------- addCustomBlock -------------------------- *)
\* texts typed into the prompt; <<>> is an empty or cancelled prompt
RawInputs ==
    { <<>>,
      <<"1", "-", "2">>,                                  \* [60, 120)
      <<"0", ":", "3", "0", " ", "t", "o", " ", "2", ":", "3", "0">>,   \* [30, 150)
      <<"1", ":", "1", "5", "~", "1", "3", "0">>,         \* [75, 90)
      <<"1", "1", "p", "m", "-", "2", "3", "5", "9">>,    \* [1380, 1439)
      <<"2", "-", "1">>,                                  \* end before start
      <<"1", "-", "x">>,                                  \* unparsable end
      <<"x", "-", "1">>,                                  \* unparsable start
      <<"1", "-", "1">>,                                  \* end equal to start
      <<"9", ":", "3", "0">> }                            \* no separator

\* the body of addCustomBlock once the prompt has returned raw
addCustomBlock(raw) ==
    \E parts \in {splitRange(raw, <<>>)} :
          IF raw = <<>> \/ Len(parts) < 2
          THEN /\ UNCHANGED schedule
               /\ NoRender
               /\ last' = [Call("customRejected", 0) EXCEPT !.raw = raw]
          ELSE \E startMin \in {parseTimeToMinutes(parts[1])},
                  endMin \in {parseTimeToMinutes(parts[2])} :
                 IF isNaN(startMin) \/ isNaN(endMin) \/ endMin <= startMin
                 THEN /\ UNCHANGED schedule
                      /\ NoRender
                      /\ last' = [Call("customRejected", 0) EXCEPT !.raw = raw]
                 ELSE LET s == Max(0, Min(MINS_IN_DAY - 1, startMin))
                          e == Max(1, Min(MINS_IN_DAY, endMin))
                      IN  /\ setDaySlots(replaceRangeWithSingleBlock(daySlots, s, e - s, <<>>))
                          /\ Render
                          /\ last' = [Call("custom", 0) EXCEPT !.start = s, !.span = e - s,
                                                               !.raw = raw]

AddCustomBlock ==
    /\ Ready
    /\ \E raw \in RawInputs : addCustomBlock(raw)
    /\ Step
    /\ UNCHANGED <<status, storage, selectedDay, nextId, collisions>>
    /\ UNCHANGED widgetVars

Next ==
    \/ Mount
    \/ SelectDay
    \/ MergeSlots
    \/ UnmergeSlot
    \/ AddTask
    \/ UpdateTask
    \/ RemoveTask
    \/ ApplyBlockToAllDays
    \/ ResetSelectedDay
    \/ AddCustomBlock

Spec == Init /\ [][Next]_vars

(* ------------- the planner on a week with a repeated task id ---------- *)
\* A week saved by an earlier session: savedWeek after Sunday's [60,120) was
\* applied to all days and Math.random gave Sunday's and Monday's copy the
\* same id.
collidedWeek ==
    applyBlockToAllDays(savedWeek, "Sunday", 2, "replace", <<4, 4, 5, 6, 7, 8, 9>>)

MaxIdOf(w) == CHOOSE m \in IdsOfWeek(w) : \A x \in IdsOfWeek(w) : x <= m

InitFrame ==
    /\ status = "unmounted"
    /\ storage = JSONstringify(collidedWeek)
    /\ schedule = NoSchedule
    /\ selectedDay = 0
    /\ nextId = MaxIdOf(collidedWeek) + 1
    /\ collisions = 0
    /\ last = NoCall
    /\ steps = 0
    /\ timer = NoTimer
    /\ rendered = {}
    /\ InitWidgets

SpecFrame == InitFrame /\ [][Next]_vars

(* ------------------- the planner with its autosave -------------------- *)
\* variant: only the selected day of the stored week is rewritten
autosavedSelectedDayOnly(captured) ==
    JSONstringify([d \in DayNames |->
        IF d = dayName \/ storage.kind # "json" THEN captured[d] ELSE storage.value[d]])

\* localStorage.setItem(key, JSON.stringify(schedule)) of the timeout callback
autosaved(captured) == JSONstringify(captured)

\* the effect of the last render runs (after the paint)
RunEffect ==
    /\ status = "mounted"
    /\ timer.effect.set
    /\ timer' = Flushed
    /\ UNCHANGED <<status, storage, schedule, selectedDay, nextId, collisions, last, steps,
                   rendered>>
    /\ UNCHANGED widgetVars

\* a timeout that is set expires, whether or not a later render's effect is
\* still to run, and its callback writes the schedule it closed over
AutosaveFire ==
    /\ status = "mounted"
    /\ \E k \in 1..Len(timer.armed) :
          /\ storage' = autosaved(timer.armed[k])
          /\ timer' = [timer EXCEPT
                         !.armed = SubSeq(@, 1, k - 1) \o SliceFrom(@, k + 1),
                         !.own = @ /\ k # Len(timer.armed)]
    /\ UNCHANGED <<status, schedule, selectedDay, nextId, collisions, last, steps, rendered>>
    /\ UNCHANGED widgetVars

\* the planner is opened for the first time: nothing is stored yet
InitSave ==
    /\ status = "unmounted"
    /\ storage = Missing
    /\ schedule = NoSchedule
    /\ selectedDay = 0
    /\ nextId = 1
    /\ collisions = 0
    /\ last = NoCall
    /\ steps = 0
    /\ timer = NoTimer
    /\ rendered = {}
    /\ InitWidgets

NextSave ==
    \/ Mount
    \/ SelectDay
    \/ MergeSlots
    \/ UnmergeSlot
    \/ AddTask
    \/ UpdateTask
    \/ RemoveTask
    \/ ApplyBlockToAllDays
    \/ ResetSelectedDay
    \/ AddCustomBlock
    \/ RunEffect
    \/ AutosaveFire

SpecSave == InitSave /\ [][NextSave]_vars

\* handlers with every kind of render: a new schedule, the same schedule
\* (SelectDay), none (empty task text, reset not confirmed)
NextSaveLive ==
    \/ Mount
    \/ SelectDay
    \/ MergeSlots
    \/ UnmergeSlot
    \/ AddTask
    \/ ResetSelectedDay
    \/ RunEffect
    \/ AutosaveFire

\* a render's effect is run after the paint and a timeout that is set expires
\* after its 120 ms
SpecSaveLive ==
    InitSave /\ [][NextSaveLive]_vars /\ WF_vars(RunEffect) /\ WF_vars(AutosaveFire)

(* ------------- replaceRangeWithSingleBlock on drawn inputs ------------ *)
CutPool == {BASE * k : k \in 1..MaxCuts}
RangePoints == {(BASE \div 2) * k : k \in 0..(2 * MaxCuts)} \cup {MINS_IN_DAY}

\* the k-th smallest element of a set of numbers
RECURSIVE SortedSeq(_)
SortedSeq(S) ==
    IF S = {} THEN <<>>
    ELSE LET lo == CHOOSE x \in S : \A y \in S : x <= y
         IN  <<lo>> \o SortedSeq(S \ {lo})

\* the partition with boundaries cuts whose blocks numbered in withTask hold a task
PartitionOf(cuts, withTask) ==
    LET b == <<0>> \o SortedSeq(cuts) \o <<MINS_IN_DAY>>
    IN  [k \in 1..(Len(b) - 1) |->
            [start |-> b[k], span |-> b[k + 1] - b[k],
             tasks |-> IF k \in withTask THEN <<Task(k, <<"a">>, FALSE)>> ELSE <<>>]]

DrawnPartitions ==
    UNION {{PartitionOf(cuts, withTask) : withTask \in SUBSET (1..(Cardinality(cuts) + 1))}
            : cuts \in SUBSET CutPool}

DrawnTasks == {<<>>, <<Task(MaxCuts + 2, <<"x">>, FALSE)>>}

InitSplice ==
    /\ status = "mounted"
    /\ storage = Missing
    /\ \E p \in DrawnPartitions \cup {savedWeek["Sunday"]} :
          schedule = [defaultSchedule EXCEPT !["Sunday"] = p]
    /\ selectedDay = 0
    /\ nextId = MaxCuts + 3
    /\ collisions = 0
    /\ last = NoCall
    /\ steps = 0
    /\ timer = [NoTimer EXCEPT !.effect = On(schedule)]
    /\ rendered = {schedule}
    /\ InitWidgets

SpliceCall ==
    /\ last.op = "none"
    /\ \E start \in RangePoints, end \in RangePoints, tasks \in DrawnTasks :
          /\ start < end
          /\ start < MINS_IN_DAY
          /\ setDaySlots(replaceRangeWithSingleBlock(daySlots, start, end - start, tasks))
          /\ last' = [Call("splice", 0) EXCEPT !.start = start, !.span = end - start,
                        !.supplied = [d \in DayNames |-> tasks]]
    /\ Step
    /\ Render
    /\ UNCHANGED <<status, storage, selectedDay, nextId, collisions>>
    /\ UNCHANGED widgetVars

NextSplice == SpliceCall

SpecSplice == InitSplice /\ [][NextSplice]_vars

(* ------------------ the same splice applied a second time ------------ *)
\* replaceRangeWithSingleBlock called again on its own result with the start,
\* span and tasks of the call before
SpliceAgain ==
    /\ last.op = "splice"
    /\ setDaySlots(replaceRangeWithSingleBlock(daySlots, last.start, last.span,
                                               last.supplied[dayName]))
    /\ last' = [last EXCEPT !.op = "spliceAgain", !.pre = schedule]
    /\ Step
    /\ Render
    /\ UNCHANGED <<status, storage, selectedDay, nextId, collisions>>
    /\ UNCHANGED widgetVars

NextSpliceTwice ==
    \/ SpliceCall
    \/ SpliceAgain

SpecSpliceTwice == InitSplice /\ [][NextSpliceTwice]_vars

(* ------------------ applyBlockToAllDays with any index ---------------- *)
\* indices that designate no block of the day: before the first block and
\* past the last one
NoBlockIdx(slots) == {0, Len(slots) + 1}

\* applyBlockToAllDays called once with an index that may designate no block;
\* the updater then returns prev itself and nothing is rendered again
ApplyCall ==
    /\ last.op = "none"
    /\ \E i \in Idx(daySlots) \cup NoBlockIdx(daySlots), mode \in {"replace", "append"} :
          IF i \in 1..Len(daySlots)
          THEN applyBlock(i, mode) /\ Render
          ELSE /\ schedule' = applyBlockToAllDays(schedule, dayName, i, mode, <<>>)
               /\ last' = [Call("apply", i) EXCEPT !.mode = mode]
               /\ NoRender
               /\ UNCHANGED <<nextId, collisions>>
    /\ Step
    /\ UNCHANGED <<status, storage, selectedDay>>
    /\ UNCHANGED widgetVars

NextApply == ApplyCall

SpecApply == InitSplice /\ [][NextApply]_vars

(* --------------------- addCustomBlock on drawn ranges ----------------- *)
SideChars == {"0", "1", "7", ":", " "}

\* every text of at most n of these characters
RECURSIVE TextsUpTo(_)
TextsUpTo(n) ==
    IF n = 0 THEN {<<>>}
    ELSE TextsUpTo(n - 1)
           \cup {Append(t, c) : t \in {x \in TextsUpTo(n - 1) : Len(x) = n - 1}, c \in SideChars}

\* a side of the range: such a text, as it is or followed by am or pm
DrawnSides ==
    {t \o suffix : t \in TextsUpTo(MaxLen), suffix \in {<<>>, <<"a", "m">>, <<"P", "M">>}}

\* sides with a known minute of day on the other side of the separator
StartSides == {<<"1", "2", "a", "m">>, <<"7", ":", "7", "7">>, <<"1", "7", "7">>}
EndSides == {<<"7", "7", "7", "7">>}

DrawnRanges ==
    {a \o <<"-">> \o b : a \in StartSides, b \in DrawnSides}
      \cup {a \o <<"-">> \o b : a \in DrawnSides, b \in EndSides}

InitParse ==
    /\ status = "mounted"
    /\ storage = Missing
    /\ schedule = savedWeek
    /\ selectedDay = 0
    /\ nextId = Cardinality(IdsOfWeek(savedWeek)) + 1
    /\ collisions = 0
    /\ last = NoCall
    /\ steps = 0
    /\ timer = [NoTimer EXCEPT !.effect = On(schedule)]
    /\ rendered = {schedule}
    /\ InitWidgets

CustomCall ==
    /\ last.op = "none"
    /\ \E raw \in DrawnRanges : addCustomBlock(raw)
    /\ Step
    /\ UNCHANGED <<status, storage, selectedDay, nextId, collisions>>
    /\ UNCHANGED widgetVars

NextParse == CustomCall

SpecParse == InitParse /\ [][NextParse]_vars

(* ------------------ updateTask / removeTask on drawn days ------------- *)
\* tasks a block can hold; two of them have the same id
TaskPool == {Task(1, <<"a">>, FALSE), Task(2, <<"b">>, TRUE), Task(1, <<"b">>, FALSE)}

RECURSIVE ListsUpTo(_)
ListsUpTo(n) ==
    IF n = 0 THEN {<<>>}
    ELSE ListsUpTo(n - 1)
           \cup {Append(l, t) : l \in {x \in ListsUpTo(n - 1) : Len(x) = n - 1}, t \in TaskPool}

\* the default day with drawn tasks on its first block and none or one task
\* (with an id of the pool) on its second
DrawnTaskDays ==
    {[defaultDay EXCEPT ![1].tasks = first, ![2].tasks = second] :
        first \in ListsUpTo(MaxTasks), second \in {<<>>, <<Task(1, <<"a">>, FALSE)>>}}

InitTasks ==
    /\ status = "mounted"
    /\ storage = Missing
    /\ \E p \in DrawnTaskDays : schedule = [defaultSchedule EXCEPT !["Sunday"] = p]
    /\ selectedDay = 0
    /\ nextId = 3
    /\ collisions = 0
    /\ last = NoCall
    /\ steps = 0
    /\ timer = [NoTimer EXCEPT !.effect = On(schedule)]
    /\ rendered = {schedule}
    /\ InitWidgets

\* the ids the handlers are called with: the ids of the pool and one that no
\* task has
CallIds == {t.id : t \in TaskPool} \cup {3}

CallPatches ==
    {[field |-> "done", value |-> v] : v \in BOOLEAN}
      \cup {[field |-> "text", value |-> x] : x \in Texts \cup {<<>>}}

UpdateCall ==
    /\ last.op = "none"
    /\ \E i \in Idx(daySlots), tid \in CallIds, patch \in CallPatches :
          /\ setDaySlots(updateTaskIn(daySlots, i, tid, patch))
          /\ last' = [Call("updateTask", i) EXCEPT !.minted = <<tid>>,
                                                  !.patch = Patched(patch)]
    /\ Step
    /\ Render
    /\ UNCHANGED <<status, storage, selectedDay, nextId, collisions>>
    /\ UNCHANGED widgetVars

RemoveCall ==
    /\ last.op = "none"
    /\ \E i \in Idx(daySlots), tid \in CallIds :
          /\ setDaySlots(removeTaskFrom(daySlots, i, tid))
          /\ last' = [Call("removeTask", i) EXCEPT !.minted = <<tid>>]
    /\ Step
    /\ Render
    /\ UNCHANGED <<status, storage, selectedDay, nextId, collisions>>
    /\ UNCHANGED widgetVars

NextTasks ==
    \/ UpdateCall
    \/ RemoveCall

SpecTasks == InitTasks /\ [][NextTasks]_vars

(* ------------------ mergeSlots / unmergeSlot on drawn days ------------ *)
\* the days the stored week can hold on Sunday
StoredDays == DrawnPartitions \cup {savedWeek[d] : d \in DayNames}

InitMerge ==
    /\ status = "unmounted"
    /\ \E p \in StoredDays :
          storage = JSONstringify([defaultSchedule EXCEPT !["Sunday"] = p])
    /\ schedule = NoSchedule
    /\ selectedDay = 0
    /\ nextId = Cardinality(IdsOfWeek(storage.value)) + 1
    /\ collisions = 0
    /\ last = NoCall
    /\ steps = 0
    /\ timer = NoTimer
    /\ rendered = {}
    /\ InitWidgets

ReadyToCall == status = "mounted" /\ steps < MaxCalls

\* the indices mergeSlots and unmergeSlot are called with: the positions the
\* user acts on and the index one past the last block
CallIdx(slots) == Idx(slots) \cup {Len(slots) + 1}

MergeCall ==
    /\ ReadyToCall
    /\ \E i \in CallIdx(daySlots) :
          /\ setDaySlots(mergeSlots(daySlots, i))
          /\ last' = Call("merge", i)
    /\ Step
    /\ Render
    /\ UNCHANGED <<status, storage, selectedDay, nextId, collisions>>
    /\ UNCHANGED widgetVars

UnmergeCall ==
    /\ ReadyToCall
    /\ \E i \in CallIdx(daySlots) :
          /\ setDaySlots(unmergeSlot(daySlots, i))
          /\ last' = Call("unmerge", i)
    /\ Step
    /\ Render
    /\ UNCHANGED <<status, storage, selectedDay, nextId, collisions>>
    /\ UNCHANGED widgetVars

NextMerge ==
    \/ Mount
    \/ MergeCall
    \/ UnmergeCall

SpecMerge == InitMerge /\ [][NextMerge]_vars

(* ----------------------------- the music player ----------------------- *)
\* Object.keys(playlists)
names(pl) == {pl[k].name : k \in 1..Len(pl)}

\* playlists[name] || []
tracksOf(pl, name) ==
    IF name \in names(pl) THEN pl[CHOOSE k \in 1..Len(pl) : pl[k].name = name].tracks
    ELSE <<>>

\* { ...pl, [name]: tracks }: an existing key keeps its place, a new one comes last
withKey(pl, name, tracks) ==
    IF name \in names(pl)
    THEN [k \in 1..Len(pl) |-> IF pl[k].name = name THEN [name |-> name, tracks |-> tracks]
                                                     ELSE pl[k]]
    ELSE Append(pl, [name |-> name, tracks |-> tracks])

\* const { [name]: _, ...rest } = pl
withoutKey(pl, name) == SelectSeq(pl, LAMBDA e : e.name # name)

\* the same two on idxMap and repeatByName, where the key order plays no part
setKey(m, k, v) == [x \in DOMAIN m \cup {k} |-> IF x = k THEN v ELSE m[x]]
dropKey(m, k) == [x \in DOMAIN m \ {k} |-> m[x]]

\* Number.isFinite(idxMap[name]) ? idxMap[name] : -1   (also p[name] ?? -1)
currentIdxOf(im, name) == IF name \in DOMAIN im THEN im[name] ELSE -1

\* repeatByName[name] || "off"
repeatModeOf(rb, name) == IF name \in DOMAIN rb THEN rb[name] ELSE "off"

\* the useMemo of lines 78-81 (indices count from 0)
currentOf(pl, im, name) ==
    LET i == currentIdxOf(im, name)
        list == tracksOf(pl, name)
    IN  IF i >= 0 /\ i < Len(list) THEN list[i + 1] ELSE NoVideo

\* playlist.findIndex((x) => x.videoId === v)
findIndex(list, v) ==
    IF \E k \in 1..Len(list) : list[k] = v
    THEN (CHOOSE k \in 1..Len(list) : list[k] = v /\ \A j \in 1..(k - 1) : list[j] # v) - 1
    ELSE -1

playlist == tracksOf(playlists, activeName)
currentIdx == currentIdxOf(idxMap, activeName)
repeatMode == repeatModeOf(repeatByName, activeName)
current == currentOf(playlists, idxMap, activeName)

\* the effect of lines 66-68 once it has run
settledName(pl, name) ==
    IF name \in names(pl) THEN name
    ELSE IF pl # <<>> THEN pl[1].name ELSE DefaultName

\* the effect of lines 190-212 after a render whose currentIdx or current
\* differs from those of the render before: the video is loaded, or played
\* again when it is the one loaded last
loadOnChange(y, newIdx, newCurrent) ==
    IF ~y.made \/ newCurrent = NoVideo \/ (newIdx = currentIdx /\ newCurrent = current)
    THEN y
    ELSE [y EXCEPT !.video = newCurrent, !.state = "playing"]

\* the state set by a handler, rendered, with the effects of that render run
Commit(pl, name, im, rb, y) ==
    \E settled \in {settledName(pl, name)} :
        /\ playlists' = pl
        /\ activeName' = settled
        /\ idxMap' = im
        /\ repeatByName' = rb
        /\ yt' = loadOnChange(y, currentIdxOf(im, settled), currentOf(pl, im, settled))

setCurrentIdx(i) == Commit(playlists, activeName, setKey(idxMap, activeName, i), repeatByName, yt)

NothingSet == UNCHANGED <<playlists, activeName, idxMap, repeatByName, yt>>

Event(op, arg) ==
    mlast' = [op |-> op, arg |-> arg,
              pre |-> Snapshot(playlists, activeName, idxMap, repeatByName, yt, recent)]

MayAct == msteps < MaxEvents
Counted == msteps' = msteps + 1

\* the YouTube script has loaded and the effect of lines 160-186 creates the
\* player, whose onStateChange calls the handleEnded of this render from then on
PlayerReady ==
    /\ ~yt.made
    /\ yt' = [yt EXCEPT !.made = TRUE,
                        !.closure = closureOf(playlist, repeatMode, activeName)]
    /\ Event("ready", <<>>)
    /\ UNCHANGED <<playlists, activeName, idxMap, repeatByName, recent, msteps>>
    /\ UNCHANGED <<plannerVars, timerVars>>

goSongs ==
    /\ MayAct
    /\ \E k \in 1..Len(playlists) :
          /\ Commit(playlists, playlists[k].name, idxMap, repeatByName, yt)
          /\ Event("goSongs", <<k>>)
    /\ Counted
    /\ UNCHANGED recent
    /\ UNCHANGED <<plannerVars, timerVars>>

\* lines 248-260
togglePlay ==
    IF ~yt.made
    THEN IF playlist # <<>> THEN setCurrentIdx(Max(0, currentIdx)) ELSE NothingSet
    ELSE IF current = NoVideo /\ playlist # <<>> THEN setCurrentIdx(0)
    ELSE IF yt.state = "playing"
         THEN Commit(playlists, activeName, idxMap, repeatByName, [yt EXCEPT !.state = "paused"])
    ELSE IF yt.video # NoVideo
         THEN Commit(playlists, activeName, idxMap, repeatByName, [yt EXCEPT !.state = "playing"])
    ELSE NothingSet

\* lines 262-267
playByIndex(i) ==
    IF i < 0 \/ i >= Len(playlist) THEN NothingSet
    ELSE IF ~yt.made THEN setCurrentIdx(i)
    ELSE IF i = currentIdx THEN togglePlay
    ELSE setCurrentIdx(i)

PlayByIndex ==
    /\ MayAct
    /\ \E i \in 0..(Len(playlist) - 1) :
          /\ playByIndex(i)
          /\ Event("play", <<i>>)
    /\ Counted
    /\ UNCHANGED recent
    /\ UNCHANGED <<plannerVars, timerVars>>

TogglePlay ==
    /\ MayAct
    /\ togglePlay
    /\ Event("togglePlay", <<>>)
    /\ Counted
    /\ UNCHANGED recent
    /\ UNCHANGED <<plannerVars, timerVars>>

\* lines 344-355
addToActive(t, playNow) ==
    LET arr == tracksOf(playlists, activeName)
        pl == IF \E k \in 1..Len(arr) : arr[k] = t THEN playlists
              ELSE withKey(playlists, activeName, Append(arr, t))
        idx == findIndex(playlist, t)
        im == IF ~playNow THEN idxMap
              ELSE setKey(idxMap, activeName, IF idx >= 0 THEN idx ELSE Len(playlist))
    IN  Commit(pl, activeName, im, repeatByName, yt)

Videos == 1..MaxVideos

\* a search result is clicked (lines 671-675) or its Add button (line 688)
AddFromResults ==
    /\ MayAct
    /\ \E t \in Videos, button \in BOOLEAN :
          /\ IF button THEN addToActive(t, FALSE)
             ELSE \E idx \in {findIndex(playlist, t)} :
                     IF idx >= 0
                     THEN (IF idx = currentIdx THEN togglePlay ELSE setCurrentIdx(idx))
                     ELSE addToActive(t, TRUE)
          /\ Event(IF button THEN "add" ELSE "addAndPlay", <<t>>)
    /\ Counted
    /\ UNCHANGED recent
    /\ UNCHANGED <<plannerVars, timerVars>>

\* arr.splice(idx, 1)
spliceOut(arr, idx) ==
    IF idx < 0 \/ idx >= Len(arr) THEN arr
    ELSE SubSeq(arr, 1, idx) \o SliceFrom(arr, idx + 2)

\* arr.splice(to, 0, item)
spliceIn(arr, to, item) ==
    LET at == Min(Max(to, 0), Len(arr))
    IN  SubSeq(arr, 1, at) \o <<item>> \o SliceFrom(arr, at + 1)

\* lines 357-370
removeAt(idx) ==
    LET pl == withKey(playlists, activeName, spliceOut(tracksOf(playlists, activeName), idx))
        newLen == Len(playlist) - 1
        im == IF idx = currentIdx
              THEN setKey(idxMap, activeName, IF newLen <= 0 THEN -1 ELSE Min(idx, newLen - 1))
              ELSE IF idx < currentIdx THEN setKey(idxMap, activeName, currentIdx - 1)
              ELSE idxMap
    IN  Commit(pl, activeName, im, repeatByName, yt)

RemoveAt ==
    /\ MayAct
    /\ \E i \in 0..(Len(playlist) - 1) :
          /\ removeAt(i)
          /\ Event("remove", <<i>>)
    /\ Counted
    /\ UNCHANGED recent
    /\ UNCHANGED <<plannerVars, timerVars>>

\* lines 372-383
moveItem(from, to) ==
    IF from = to THEN NothingSet
    ELSE LET arr == tracksOf(playlists, activeName)
             pl == withKey(playlists, activeName, spliceIn(spliceOut(arr, from), to, arr[from + 1]))
             im == IF currentIdx = from THEN setKey(idxMap, activeName, to)
                   ELSE IF from < currentIdx /\ to >= currentIdx
                        THEN setKey(idxMap, activeName, currentIdx - 1)
                   ELSE IF from > currentIdx /\ to <= currentIdx
                        THEN setKey(idxMap, activeName, currentIdx + 1)
                   ELSE idxMap
         IN  Commit(pl, activeName, im, repeatByName, yt)

\* the up and down buttons (lines 774, 781) and a drop on row to (line 390)
MoveItem ==
    /\ MayAct
    /\ \E from \in 0..(Len(playlist) - 1), to \in 0..(Len(playlist) - 1) :
          /\ moveItem(from, to)
          /\ Event("move", <<from, to>>)
    /\ Counted
    /\ UNCHANGED recent
    /\ UNCHANGED <<plannerVars, timerVars>>

\* the Clear dialog confirmed (lines 928-929)
ClearSongs ==
    /\ MayAct
    /\ Commit(withKey(playlists, activeName, <<>>), activeName,
              setKey(idxMap, activeName, -1), repeatByName, yt)
    /\ Event("clear", <<>>)
    /\ Counted
    /\ UNCHANGED recent
    /\ UNCHANGED <<plannerVars, timerVars>>

\* line 296
ToggleRepeatOne ==
    /\ MayAct
    /\ Commit(playlists, activeName, idxMap,
              setKey(repeatByName, activeName, IF repeatMode = "one" THEN "off" ELSE "one"), yt)
    /\ Event("toggleRepeat", <<>>)
    /\ Counted
    /\ UNCHANGED recent
    /\ UNCHANGED <<plannerVars, timerVars>>

\* the index handleEnded moves to from prev in a list of n tracks (lines 289-293)
nextIdx(prev, n) ==
    IF prev < 0 THEN (IF n > 0 THEN 0 ELSE -1)
    ELSE IF n > 0 THEN (prev + 1) % n ELSE -1

\* the playing video reaches its end: onStateChange gets ENDED and calls the
\* handleEnded the player was created with (lines 283-294), whose playlist,
\* repeatMode and setCurrentIdx are those of that render
TrackEnded ==
    /\ MayAct
    /\ yt.made /\ yt.state = "playing"
    /\ \E c \in {yt.closure} :
          IF c.playlist = <<>>
          THEN /\ yt' = [yt EXCEPT !.state = "ended"]
               /\ UNCHANGED <<playlists, activeName, idxMap, repeatByName, recent>>
          ELSE IF c.repeatMode = "one"
          THEN /\ yt' = [yt EXCEPT !.state = "playing"]
               /\ UNCHANGED <<playlists, activeName, idxMap, repeatByName, recent>>
          ELSE IF recent
          THEN /\ yt' = [yt EXCEPT !.state = "ended"]
               /\ UNCHANGED <<playlists, activeName, idxMap, repeatByName, recent>>
          ELSE /\ recent' = TRUE
               /\ Commit(playlists, activeName,
                         setKey(idxMap, c.activeName,
                                nextIdx(currentIdxOf(idxMap, c.activeName), Len(c.playlist))),
                         repeatByName, [yt EXCEPT !.state = "ended"])
    /\ Event("ended", <<>>)
    /\ Counted
    /\ UNCHANGED <<plannerVars, timerVars>>

\* 700 ms pass since the last advance
Wait700 ==
    /\ recent
    /\ recent' = FALSE
    /\ Event("wait", <<>>)
    /\ UNCHANGED <<playlists, activeName, idxMap, repeatByName, yt, msteps>>
    /\ UNCHANGED <<plannerVars, timerVars>>

InitMusic == InitSave

\* (nameRaw || "").trim()
trimmedName(nameRaw) == trim(nameRaw)

\* variant: a playlist of that name is replaced by an empty one
createPlaylistOverwrites(nameRaw) ==
    \E name \in {IF trimmedName(nameRaw) = <<>> THEN Untitled ELSE trimmedName(nameRaw)} :
        Commit(withKey(playlists, name, <<>>), name, setKey(idxMap, name, -1),
               setKey(repeatByName, name, "off"), yt)

\* lines 306-313
createPlaylist(nameRaw) ==
    \E name \in {IF trimmedName(nameRaw) = <<>> THEN Untitled ELSE trimmedName(nameRaw)} :
        IF name \in names(playlists) THEN NothingSet
        ELSE Commit(withKey(playlists, name, <<>>), name, setKey(idxMap, name, -1),
                    setKey(repeatByName, name, "off"), yt)

\* lines 315-323
trulyDeletePlaylist(name) ==
    IF Len(playlists) <= 1 THEN NothingSet
    ELSE \E rest \in {withoutKey(playlists, name)} :
            Commit(rest,
                   IF activeName = name
                   THEN (IF rest # <<>> THEN rest[1].name ELSE DefaultName)
                   ELSE activeName,
                   dropKey(idxMap, name), dropKey(repeatByName, name), yt)

\* lines 325-341: the renamed playlist becomes the last key; an index that is
\* missing stays missing, a missing mode becomes "off"
renamePlaylist(oldName, newNameRaw) ==
    \E newName \in {trimmedName(newNameRaw)} :
        IF newName = <<>> \/ newName = oldName \/ newName \in names(playlists) THEN NothingSet
        ELSE Commit(withKey(withoutKey(playlists, oldName), newName, tracksOf(playlists, oldName)),
                    IF activeName = oldName THEN newName ELSE activeName,
                    IF oldName \in DOMAIN idxMap
                    THEN setKey(dropKey(idxMap, oldName), newName, idxMap[oldName])
                    ELSE dropKey(idxMap, newName),
                    setKey(dropKey(repeatByName, oldName), newName,
                           repeatModeOf(repeatByName, oldName)),
                    yt)

\* what is typed as a playlist name
RawNames == {<<>>, <<"A">>, <<" ", "A">>, DefaultName}

CreatePlaylist ==
    /\ MayAct
    /\ \E nameRaw \in RawNames :
          /\ createPlaylist(nameRaw)
          /\ Event("create", nameRaw)
    /\ Counted
    /\ UNCHANGED recent
    /\ UNCHANGED <<plannerVars, timerVars>>

\* the delete dialog of a listed playlist is confirmed (line 882)
TrulyDeletePlaylist ==
    /\ MayAct
    /\ \E k \in 1..Len(playlists) :
          /\ trulyDeletePlaylist(playlists[k].name)
          /\ Event("delete", playlists[k].name)
    /\ Counted
    /\ UNCHANGED recent
    /\ UNCHANGED <<plannerVars, timerVars>>

\* the rename field of a listed playlist is left with Enter or by blur
RenamePlaylist ==
    /\ MayAct
    /\ \E k \in 1..Len(playlists), newNameRaw \in RawNames :
          /\ renamePlaylist(playlists[k].name, newNameRaw)
          /\ Event("rename", <<playlists[k].name, newNameRaw>>)
    /\ Counted
    /\ UNCHANGED recent
    /\ UNCHANGED <<plannerVars, timerVars>>

NextPlaylists ==
    \/ CreatePlaylist
    \/ RenamePlaylist
    \/ TrulyDeletePlaylist
    \/ goSongs
    \/ AddFromResults

SpecPlaylists == InitMusic /\ [][NextPlaylists]_vars

NextMusic ==
    \/ PlayerReady
    \/ PlayByIndex
    \/ TogglePlay
    \/ AddFromResults
    \/ RemoveAt
    \/ MoveItem
    \/ ClearSongs
    \/ ToggleRepeatOne
    \/ TrackEnded
    \/ Wait700

SpecMusic == InitMusic /\ [][NextMusic]_vars

(* ------------------------------- the timer ---------------------------- *)
\* line 87
clamp(n, lo, hi) == Min(Max(n, lo), hi)

\* line 88: 23:59:59
LIMIT_SEC == 23 * 3600 + 59 * 60 + 59

\* lines 90-95: the six digits b read as hours, minutes and seconds
bufToSec(b) ==
    clamp((b \div 10000) * 3600 + ((b \div 100) % 100) * 60 + (b % 100), 0, LIMIT_SEC)

\* lines 96-102: the six digits of a number of seconds
secToBuf(sec) ==
    LET t == clamp(sec, 0, LIMIT_SEC)
    IN  (t \div 3600) * 10000 + ((t % 3600) \div 60) * 100 + (t % 60)

\* lines 103-104
msToBuf(ms) == secToBuf(ms \div 1000)
bufToMs(b) == bufToSec(b) * 1000

\* lines 140-143, of the render r
remainingMs(r) == IF r.running THEN Max(0, r.endTs - r.now) ELSE r.targetMs

\* line 232, of the render r
displayBuf(r) ==
    IF r.running THEN msToBuf(remainingMs(r))
    ELSE IF r.editing THEN r.buf ELSE msToBuf(r.targetMs)

\* line 230
showCaret(r) == r.editing /\ ~r.running /\ r.caretOn

\* the timeout of the alarm: 5000 ms (line 194)
ALARM_MS == 5000

\* the id setTimeout returns
newTimeoutId(a) ==
    IF a.timeouts = <<>> THEN 1
    ELSE 1 + Max(a.timeouts[Len(a.timeouts)].id, a.stopTimer)

\* variant: the timeout that stopTimer names is left set
stopAlarmKeepsTimeout(s, a) ==
    [card |-> [s EXCEPT !.ended = FALSE],
     alarmRef |-> [a EXCEPT !.stopTimer = 0]]

\* lines 161-167 on the state s and the ref a (the sound nodes are left out)
stopAlarm(s, a) ==
    [card |-> [s EXCEPT !.ended = FALSE],
     alarmRef |-> [timeouts |-> SelectSeq(a.timeouts, LAMBDA t : t.id # a.stopTimer),
                   stopTimer |-> 0]]

\* lines 169-195 of the render r: the timeout keeps r.lastStartMs
startAlarm(r, s, a, t) ==
    [card |-> [s EXCEPT !.ended = TRUE],
     alarmRef |-> [timeouts |-> Append(a.timeouts,
                                       [id |-> newTimeoutId(a), at |-> t + ALARM_MS,
                                        lastStartMs |-> r.lastStartMs]),
                   stopTimer |-> newTimeoutId(a)]]

\* lines 210-219 of the render r at the time t
startFromCurrent(r, s, a, t) ==
    LET ms == IF r.editing THEN bufToMs(r.buf) ELSE r.targetMs
        stopped == stopAlarm(s, a)
    IN  IF ms <= 0 THEN [card |-> s, alarmRef |-> a]
        ELSE [card |-> [stopped.card EXCEPT !.lastStartMs = ms, !.targetMs = ms,
                                            !.endTs = t + ms, !.running = TRUE,
                                            !.editing = FALSE],
              alarmRef |-> stopped.alarmRef]

\* line 220 of the render r
onPause(r, s, a) ==
    [card |-> [s EXCEPT !.running = FALSE, !.targetMs = remainingMs(r)], alarmRef |-> a]

\* lines 221-224
onReset(s, a) ==
    LET stopped == stopAlarm([s EXCEPT !.running = FALSE], a)
    IN  [card |-> [stopped.card EXCEPT !.targetMs = 0, !.endTs = 0, !.buf = 0,
                                       !.editing = TRUE],
         alarmRef |-> stopped.alarmRef]

\* line 225 of the render r; also the body of the timeout (lines 191-193)
onStopAlarm(r, s, a) ==
    LET stopped == stopAlarm(s, a)
    IN  [card |-> [stopped.card EXCEPT !.targetMs = r.lastStartMs, !.editing = FALSE],
         alarmRef |-> stopped.alarmRef]

\* lines 199-207: the effect after a render s; chimePlayedRef is false in
\* every render that is not running and is set in the one run that ends
endDetection(s, a, t) ==
    IF s.running /\ remainingMs(s) <= 0
    THEN startAlarm(s, [s EXCEPT !.running = FALSE, !.endTs = 0], a, t)
    ELSE [card |-> s, alarmRef |-> a]

\* line 308: the dependencies of the keydown effect
keyDeps(r) == <<r.buf, r.running, r.ended, r.editing, r.caretOn>>

\* lines 272-305: onKey of the render r for the key pressed, on a target
\* that is not an input
onKeyOf(r, key, s, a, t) ==
    IF r.ended /\ key \in {"Enter", " "} THEN onStopAlarm(r, s, a)
    ELSE IF (~r.editing \/ ~r.caretOn) /\ key = " "
         THEN (IF r.running THEN onPause(r, s, a) ELSE startFromCurrent(r, s, a, t))
    ELSE IF (~r.editing \/ ~r.caretOn) /\ key = "r" THEN onReset(s, a)
    ELSE IF r.running THEN [card |-> s, alarmRef |-> a]
    ELSE IF key = "1"
         THEN [card |-> [s EXCEPT !.buf = secToBuf(bufToSec((r.buf * 10 + 1) % 1000000)),
                                  !.editing = TRUE],
               alarmRef |-> a]
    ELSE [card |-> s, alarmRef |-> a]

\* the state after a handler: the render, the end detection, and the
\* keydown listener replaced when one of its dependencies changed
Rendered(out, t) ==
    /\ \E fin \in {endDetection(out.card, out.alarmRef, t)} :
          /\ card' = fin.card
          /\ alarmRef' = fin.alarmRef
          /\ onKey' = IF keyDeps(fin.card) # keyDeps(onKey) THEN fin.card ELSE onKey

TimerEvent(op, arg) ==
    tlast' = [op |-> op, arg |-> arg, pre |-> TimerSnapshot(card, onKey, alarmRef, clock)]

MayPress == tsteps < MaxPresses
Pressed == tsteps' = tsteps + 1
OnlyTimer == UNCHANGED <<plannerVars, playerVars>>

\* a second passes
Tick ==
    /\ clock < MaxClock * 1000
    /\ clock' = clock + 1000
    /\ UNCHANGED <<card, onKey, alarmRef, tlast, tsteps>>
    /\ OnlyTimer

\* lines 133-138: an animation frame of the loop that runs while running
Frame ==
    /\ card.running
    /\ Rendered([card |-> [card EXCEPT !.now = clock], alarmRef |-> alarmRef], clock)
    /\ TimerEvent("frame", 0)
    /\ UNCHANGED <<clock, tsteps>>
    /\ OnlyTimer

\* line 617: the Start / Pause button, shown when the alarm is off
StartPauseButton ==
    /\ MayPress
    /\ ~card.ended
    /\ IF card.running
       THEN Rendered(onPause(card, card, alarmRef), clock) /\ TimerEvent("pause", 0)
       ELSE Rendered(startFromCurrent(card, card, alarmRef, clock), clock)
              /\ TimerEvent("start", 0)
    /\ Pressed
    /\ UNCHANGED clock
    /\ OnlyTimer

\* line 626
ResetButton ==
    /\ MayPress
    /\ Rendered(onReset(card, alarmRef), clock)
    /\ TimerEvent("reset", 0)
    /\ Pressed
    /\ UNCHANGED clock
    /\ OnlyTimer

\* line 609: the Stop button, shown while the alarm is on
StopButton ==
    /\ MayPress
    /\ card.ended
    /\ Rendered(onStopAlarm(card, card, alarmRef), clock)
    /\ TimerEvent("stop", 0)
    /\ Pressed
    /\ UNCHANGED clock
    /\ OnlyTimer

Keys == {" ", "r", "Enter", "1"}

\* a key goes down anywhere in the window: the listener is the onKey of the
\* render in which the effect of lines 267-308 last ran
KeyDown ==
    /\ MayPress
    /\ \E key \in Keys :
          /\ Rendered(onKeyOf(onKey, key, card, alarmRef, clock), clock)
          /\ TimerEvent("key", key)
    /\ Pressed
    /\ UNCHANGED clock
    /\ OnlyTimer

\* line 365
ClickTimeBox ==
    /\ MayPress
    /\ Rendered([card |-> [card EXCEPT !.editing = TRUE, !.caretOn = TRUE],
                 alarmRef |-> alarmRef], clock)
    /\ TimerEvent("click", 0)
    /\ Pressed
    /\ UNCHANGED clock
    /\ OnlyTimer

\* line 366
BlurTimeBox ==
    /\ MayPress
    /\ card.caretOn
    /\ Rendered([card |-> [card EXCEPT !.caretOn = FALSE], alarmRef |-> alarmRef], clock)
    /\ TimerEvent("blur", 0)
    /\ Pressed
    /\ UNCHANGED clock
    /\ OnlyTimer

\* lines 311-320 and 397-411: the underline is scrubbed to a number of seconds
Scrub ==
    /\ MayPress
    /\ ~showCaret(card)
    /\ \E sec \in 1..MaxSec :
          /\ Rendered([card |-> [card EXCEPT !.buf = secToBuf(sec)], alarmRef |-> alarmRef],
                      clock)
          /\ TimerEvent("scrub", sec)
    /\ Pressed
    /\ UNCHANGED clock
    /\ OnlyTimer

\* lines 190-194: a timeout that is set expires, not before its time
AlarmTimeout ==
    /\ \E k \in 1..Len(alarmRef.timeouts) :
          /\ clock >= alarmRef.timeouts[k].at
          /\ Rendered(onStopAlarm(alarmRef.timeouts[k], card,
                                  [alarmRef EXCEPT !.timeouts =
                                      SelectSeq(alarmRef.timeouts,
                                                LAMBDA t : t.id # alarmRef.timeouts[k].id)]),
                      clock)
          /\ TimerEvent("timeout", alarmRef.timeouts[k].id)
    /\ UNCHANGED <<clock, tsteps>>
    /\ OnlyTimer

NextTimer ==
    \/ Tick
    \/ Frame
    \/ StartPauseButton
    \/ ResetButton
    \/ StopButton
    \/ KeyDown
    \/ ClickTimeBox
    \/ BlurTimeBox
    \/ Scrub
    \/ AlarmTimeout

SpecTimer == InitMusic /\ [][NextTimer]_vars

(* ------------------------------ predicates ---------------------------- *)
End(b) == b.start + b.span

\* the four partition invariants of one day
ValidPartition(p) ==
    /\ Len(p) >= 1
    /\ p[1].start = 0
    /\ End(p[Len(p)]) = MINS_IN_DAY
    /\ \A k \in 1..Len(p) : p[k].span >= 1
    /\ \A k \in 1..(Len(p) - 1) : End(p[k]) = p[k + 1].start /\ p[k].start < p[k + 1].start

TypeOK ==
    /\ status \in {"unmounted", "mounted", "error"}
    /\ selectedDay \in 0..(Len(DAYS) - 1)
    /\ steps \in 0..MaxSteps

Mounted == status = "mounted"

\* number of tasks of a partition, block by block
RECURSIVE TaskCount(_)
TaskCount(slots) ==
    IF slots = <<>> THEN 0 ELSE Len(Head(slots).tasks) + TaskCount(Tail(slots))

\* the (text, done) sequence of a task list
TextDone(tasks) == [k \in 1..Len(tasks) |-> <<tasks[k].text, tasks[k].done>>]

\* positions of the blocks of p with exactly this start and span
Exact(p, start, span) == {k \in 1..Len(p) : p[k].start = start /\ p[k].span = span}

\* the last call was a splice of the selected day; its inputs and result
Spliced == last.op \in {"splice", "custom"}
P == last.pre[last.day]
R == schedule[last.day]
S == last.start
E == last.start + last.span
T == last.supplied[last.day]
ValidRange == 0 <= S /\ S < MINS_IN_DAY /\ last.span >= 1 /\ E <= MINS_IN_DAY

\* positions of the blocks of P that overlap [S, E), the first and the last
Overlap == {k \in 1..Len(P) : P[k].start < E /\ End(P[k]) > S}
FirstOv == CHOOSE k \in Overlap : \A x \in Overlap : k <= x
LastOv == CHOOSE k \in Overlap : \A x \in Overlap : k >= x
NumBefore == Cardinality({k \in 1..Len(P) : End(P[k]) <= S})
NumAfter == Cardinality({k \in 1..Len(P) : P[k].start >= E})

(* ------------------------------- claims ------------------------------- *)

\* C1: after any sequence of engine operations every day's partition is
\* sorted, contiguous, starts at 0, ends at 1440 and has spans >= 1.
PartitionInvariant ==
    Mounted => \A d \in DayNames : ValidPartition(schedule[d])

PartitionInvariantWitness ==
    /\ Mounted /\ steps >= 2
    /\ last.op = "unmerge" /\ schedule # last.pre
    /\ last.pre \notin {defaultSchedule, savedWeek}

\* C2: the result of a splice of a valid partition with a valid range has
\* exactly one block with the requested start and span, that block holds
\* exactly the supplied tasks, and the result is a valid partition.
SpliceCoversExactlyTheRequest ==
    (Spliced /\ ValidPartition(P) /\ ValidRange) =>
        /\ Cardinality(Exact(R, S, last.span)) = 1
        /\ \A k \in Exact(R, S, last.span) : R[k].tasks = T
        /\ ValidPartition(R)

SpliceCoversWitness ==
    /\ last.op = "splice" /\ T # <<>>
    /\ FirstOv < LastOv
    /\ P[FirstOv].start < S /\ End(P[LastOv]) > E

\* C3: a stored snapshot that is not JSON makes the load yield the default
\* schedule without raising an error.
LoadFallsBackToDefault ==
    (storage = Garbage /\ status # "unmounted" /\ steps = 0) =>
        (status = "mounted" /\ schedule = defaultSchedule)

\* C4: append mode keeps, on every day, the tasks a block of exactly the
\* source range already had, in order, and adds the copies of the source
\* tasks after them; on a day without such a block the new block holds only
\* the copies.  Checked on the runs where every minted id is fresh.
AppendKeepsExistingTasks ==
    (last.op = "apply" /\ last.mode = "append" /\ collisions = 0) =>
        LET src == last.pre[last.day][last.idx]
        IN  \A d \in DayNames :
              LET before == Exact(last.pre[d], src.start, src.span)
                  old == IF before = {} THEN <<>>
                         ELSE last.pre[d][CHOOSE k \in before : TRUE].tasks
              IN  \A k \in Exact(schedule[d], src.start, src.span) :
                    LET now == schedule[d][k].tasks
                    IN  /\ Len(now) = Len(old) + Len(src.tasks)
                        /\ SubSeq(now, 1, Len(old)) = old
                        /\ TextDone(SubSeq(now, Len(old) + 1, Len(now))) = TextDone(src.tasks)

\* C5: replace mode leaves every one of the seven days with exactly one block
\* of the source range, holding the (text, done) sequence of the source tasks.
ReplaceReachesEveryDay ==
    (last.op = "apply" /\ last.mode = "replace") =>
        LET src == last.pre[last.day][last.idx]
        IN  \A d \in DayNames :
              /\ Cardinality(Exact(schedule[d], src.start, src.span)) = 1
              /\ \A k \in Exact(schedule[d], src.start, src.span) :
                    TextDone(schedule[d][k].tasks) = TextDone(src.tasks)

ReplaceReachesEveryDayWitness ==
    /\ last.op = "apply" /\ last.mode = "replace"
    /\ LET src == last.pre[last.day][last.idx]
       IN  /\ \E k \in 1..Len(src.tasks) : src.tasks[k].done
           /\ \E d \in DayNames : Exact(last.pre[d], src.start, src.span) = {}
           /\ \E d \in DayNames : \E k \in Exact(last.pre[d], src.start, src.span) :
                 d # last.day /\ last.pre[d][k].tasks # <<>>

\* C6: the ids minted by a propagation differ from each other and from every
\* id already present in the schedule.
MintedIdsAreUnique ==
    last.op = "apply" =>
        /\ Cardinality({last.minted[k] : k \in 1..Len(last.minted)}) = Len(last.minted)
        /\ {last.minted[k] : k \in 1..Len(last.minted)} \cap IdsOfWeek(last.pre) = {}

\* C7: taking every minted id as fresh, no task id occurs in two blocks of
\* the same day nor twice in one block.
TaskOwnedByOneBlock ==
    (Mounted /\ collisions = 0) =>
        \A d \in DayNames : TaskCount(schedule[d]) = Cardinality(IdsOfDaySlots(schedule[d]))

\* C8: the tasks of the overlapping blocks strictly between the first and
\* the last overlapping block appear nowhere in the result; from
\* [0,60) [60,120) [120,180) with a task on [60,120), splicing [30,150) with
\* one task gives [0,30) without tasks, [30,150) with that task and [150,180)
\* without tasks.
InteriorTasksDiscarded ==
    (last.op = "splice" /\ ValidPartition(P) /\ ValidRange) =>
        /\ \A k \in Overlap :
              (FirstOv < k /\ k < LastOv) => IdsOfTasks(P[k].tasks) \cap IdsOfDaySlots(R) = {}
        /\ (P = savedWeek["Sunday"] /\ S = 30 /\ E = 150 /\ T # <<>>) =>
              R = <<[start |-> 0, span |-> 30, tasks |-> <<>>],
                    [start |-> 30, span |-> 120, tasks |-> T],
                    [start |-> 150, span |-> 30, tasks |-> <<>>]>>
                  \o SubSeq(defaultDay, 4, HOURS)

InteriorTasksDiscardedWitness ==
    /\ last.op = "splice" /\ P = savedWeek["Sunday"] /\ S = 30 /\ E = 150 /\ T # <<>>
    /\ \E k \in Overlap : FirstOv < k /\ k < LastOv /\ P[k].tasks # <<>>

\* C9: a splice leaves the blocks ending at or before start and the blocks
\* starting at or after start+span unchanged and in place.
SpliceFrame ==
    (Spliced /\ ValidPartition(P) /\ ValidRange) =>
        /\ Len(R) >= NumBefore + NumAfter
        /\ \A k \in 1..NumBefore : R[k] = P[k]
        /\ \A k \in 1..NumAfter : R[Len(R) - NumAfter + k] = P[Len(P) - NumAfter + k]

SpliceFrameWitness ==
    /\ last.op = "splice"
    /\ NumBefore >= 1 /\ NumAfter >= 1
    /\ P[1].tasks # <<>> /\ P[Len(P)].tasks # <<>>
    /\ P[FirstOv].start < S /\ End(P[LastOv]) > E

\* C10: an unaligned left (right) edge leaves a remainder block carrying all
\* tasks of the first (last) overlapping block; an aligned edge leaves none.
SpliceRemainders ==
    (Spliced /\ ValidPartition(P) /\ ValidRange) =>
        LET hasLeft == P[FirstOv].start < S
            hasRight == End(P[LastOv]) > E
        IN  /\ hasLeft => \E k \in 1..Len(R) :
                  R[k] = [start |-> P[FirstOv].start, span |-> S - P[FirstOv].start,
                          tasks |-> P[FirstOv].tasks]
            /\ hasRight => \E k \in 1..Len(R) :
                  R[k] = [start |-> E, span |-> End(P[LastOv]) - E,
                          tasks |-> P[LastOv].tasks]
            /\ Len(R) = NumBefore + NumAfter + 1
                          + (IF hasLeft THEN 1 ELSE 0) + (IF hasRight THEN 1 ELSE 0)

SpliceRemaindersWitness ==
    /\ last.op = "splice"
    /\ FirstOv < LastOv
    /\ P[FirstOv].start < S /\ P[FirstOv].tasks # <<>>
    /\ End(P[LastOv]) > E /\ P[LastOv].tasks # <<>>

\* the last call was mergeSlots / unmergeSlot with index I on the partition P
I == last.idx

\* C11: mergeSlots on a block that is not the last replaces it and its right
\* neighbour by one block with the left start, the summed span and the left
\* tasks followed by the right tasks; the other blocks stay and the count
\* drops by one.
MergeJoinsTwoBlocks ==
    (last.op = "merge" /\ I < Len(P)) =>
        /\ Len(R) = Len(P) - 1
        /\ R[I] = [start |-> P[I].start, span |-> P[I].span + P[I + 1].span,
                   tasks |-> P[I].tasks \o P[I + 1].tasks]
        /\ \A k \in 1..(I - 1) : R[k] = P[k]
        /\ \A k \in (I + 1)..Len(R) : R[k] = P[k + 1]
        /\ \A d \in DayNames \ {last.day} : schedule[d] = last.pre[d]

MergeJoinsTwoBlocksWitness ==
    /\ last.op = "merge" /\ 1 < I /\ I + 1 < Len(P)
    /\ P[I].tasks # <<>> /\ P[I + 1].tasks # <<>>
    /\ P[I].span # P[I + 1].span

\* C12: unmergeSlot on a block longer than 60 minutes replaces it by a
\* 60-minute head with all its tasks in order and a remainder with the rest
\* of the span and no tasks; the other blocks stay.
UnmergeSplitsOffHead ==
    (last.op = "unmerge" /\ I <= Len(P) /\ P[I].span > 60) =>
        /\ Len(R) = Len(P) + 1
        /\ R[I] = [start |-> P[I].start, span |-> 60, tasks |-> P[I].tasks]
        /\ R[I + 1] = [start |-> P[I].start + 60, span |-> P[I].span - 60, tasks |-> <<>>]
        /\ \A k \in 1..(I - 1) : R[k] = P[k]
        /\ \A k \in (I + 2)..Len(R) : R[k] = P[k - 1]

UnmergeSplitsOffHeadWitness ==
    /\ last.op = "unmerge" /\ 1 < I /\ I < Len(P)
    /\ P[I].span > 120 /\ Len(P[I].tasks) >= 2

\* C13: mergeSlots on the index of the last block changes nothing.
MergeOfLastBlockIsNoOp ==
    (last.op = "merge" /\ I = Len(P)) => schedule = last.pre

MergeOfLastBlockIsNoOpWitness ==
    /\ last.op = "merge" /\ I = Len(P) /\ Len(P) >= 2
    /\ P[I].tasks # <<>> /\ P[I - 1].tasks # <<>>

\* C14: unmergeSlot on a block of 60 minutes or less, or on an index without
\* a block, changes nothing.
UnmergeOfShortBlockIsNoOp ==
    (last.op = "unmerge" /\ (I > Len(P) \/ P[I].span <= 60)) => schedule = last.pre

UnmergeOfShortBlockIsNoOpWitness ==
    /\ last.op = "unmerge" /\ I <= Len(P)
    /\ P[I].span = 60 /\ P[I].tasks # <<>>
    /\ \E k \in 1..Len(P) : P[k].span > 60

\* the partition the week was loaded with, and its blocks lying inside P[I]
Loaded == JSONparse(storage)[last.day]
Inside == {k \in 1..Len(Loaded) :
              Loaded[k].start >= P[I].start /\ End(Loaded[k]) <= End(P[I])}
FirstInside == CHOOSE k \in Inside : \A x \in Inside : k <= x

RECURSIVE TasksOf(_, _, _)
TasksOf(slots, from, n) ==
    IF n = 0 THEN <<>> ELSE slots[from].tasks \o TasksOf(slots, from + 1, n - 1)

\* n one-hour blocks of the loaded day were merged into P[I] by the n-1 calls
\* before the last one
MergedHours(n) ==
    /\ steps = n /\ I <= Len(P)
    /\ Cardinality(Inside) = n /\ P[I].span = n * 60
    /\ \A k \in Inside : Loaded[k].span = 60

\* C15: splitting the merge of two one-hour blocks gives the two one-hour
\* blocks again, splitting the merge of three one-hour blocks gives a
\* 60-minute head and a 120-minute remainder instead of the three blocks; in
\* both cases the head holds all tasks of the merged blocks, in order.
SplitDoesNotUndoMerge ==
    \A n \in {2, 3} :
      (last.op = "unmerge" /\ MergedHours(n)) =>
        /\ R[I] = [start |-> P[I].start, span |-> 60, tasks |-> TasksOf(Loaded, FirstInside, n)]
        /\ R[I + 1] = [start |-> P[I].start + 60, span |-> (n - 1) * 60, tasks |-> <<>>]
        /\ Len(R) = Len(P) + 1
        /\ (n = 2) => (Len(R) = Len(Loaded)
                        /\ \A k \in 1..Len(R) : R[k].start = Loaded[k].start
                                                  /\ R[k].span = Loaded[k].span)
        /\ (n = 3) => Len(R) = Len(Loaded) - 1

SplitDoesNotUndoMergeWitness ==
    /\ last.op = "unmerge" /\ MergedHours(3)
    /\ \A k \in Inside : Loaded[k].tasks # <<>>
    /\ R[I + 1].span = 120 /\ Len(R[I].tasks) = 3

\* entered ranges the validation has to turn down: end before start, a side
\* that is no time, end equal to start, no separator
RejectedRanges ==
    { <<"2", "-", "1">>, <<"1", "-", "x">>, <<"x", "-", "1">>, <<"1", "-", "1">>,
      <<"9", ":", "3", "0">> }

\* C16: addCustomBlock performs no splice and leaves the schedule unchanged
\* when there is no separator, when a side does not parse or when the parsed
\* end is not greater than the parsed start.
InvalidRangeIsRejected ==
    (last.op \in {"custom", "customRejected"}) =>
        /\ last.raw \in RejectedRanges => (last.op = "customRejected" /\ schedule = last.pre)
        /\ \A parts \in {splitRange(last.raw, <<>>)} :
              (Len(parts) < 2
                 \/ \E startMin \in {parseTimeToMinutes(parts[1])},
                       endMin \in {parseTimeToMinutes(parts[2])} :
                      startMin = NaN \/ endMin = NaN \/ endMin <= startMin)
              => (last.op = "customRejected" /\ schedule = last.pre)

InvalidRangeIsRejectedWitness ==
    /\ last.op = "customRejected" /\ last.raw = <<"2", "-", "1">>
    /\ steps = 2 /\ last.pre[last.day] # defaultDay /\ TaskCount(last.pre[last.day]) > 0

\* C18: whatever the autosave writes to storage is a whole weekly schedule
\* that the component has rendered between two operations, all seven days of
\* it; a week with a propagation applied to some days only is never written.
AutosaveWritesRenderedSchedules ==
    [][storage' # storage =>
          /\ storage'.kind = "json"
          /\ DOMAIN storage'.value = DayNames
          /\ storage'.value \in rendered]_vars

AutosaveWritesRenderedSchedulesWitness ==
    /\ last.op = "apply" /\ \E d \in DayNames \ {last.day} : schedule[d] # last.pre[d]
    /\ storage = JSONstringify(schedule)
    /\ timer.armed = <<>>

\* the handlers that act on the selected day only
DayOps ==
    {"merge", "unmerge", "custom", "customRejected", "addTask", "addTaskCancelled",
     "updateTask", "removeTask", "reset", "resetDeclined"}

\* C17: merge, unmerge, custom range, addTask, updateTask, removeTask and
\* reset leave the partitions of the six other days as they were, also when
\* another day holds a task with the id or the text of the task that is
\* edited or removed.
SelectedDayOpsLeaveOtherDays ==
    last.op \in DayOps =>
        \A d \in DayNames \ {last.day} : schedule[d] = last.pre[d]

SelectedDayOpsLeaveOtherDaysWitness ==
    /\ last.op \in {"updateTask", "removeTask"} /\ schedule # last.pre
    /\ \E d \in DayNames \ {last.day} :
          \E k \in 1..Len(last.pre[d]) : \E t \in 1..Len(last.pre[d][k].tasks) :
             /\ last.pre[d][k].tasks[t].id = last.minted[1]
             /\ \E j \in 1..Len(last.pre[last.day][last.idx].tasks) :
                   /\ last.pre[last.day][last.idx].tasks[j].id = last.minted[1]
                   /\ last.pre[last.day][last.idx].tasks[j].text = last.pre[d][k].tasks[t].text

\* 24 blocks with start = 60*h, span = 60 and no tasks, h = 0..23
HourBlocks == [k \in 1..24 |-> [start |-> 60 * (k - 1), span |-> 60, tasks |-> <<>>]]

\* C19: a confirmed resetSelectedDay leaves the selected day with exactly the
\* 24 empty one-hour blocks whatever it held before; a declined one leaves the
\* schedule unchanged.
ResetGivesHourBlocks ==
    /\ last.op = "reset" => schedule[last.day] = HourBlocks
    /\ last.op = "resetDeclined" => schedule = last.pre

ResetGivesHourBlocksWitness ==
    /\ last.op = "reset"
    /\ TaskCount(last.pre[last.day]) > 0
    /\ \E k \in 1..Len(last.pre[last.day]) : last.pre[last.day][k].span > 60

\* C20: without a stored snapshot the schedule after the load maps each of
\* the seven day names to the 24 empty one-hour blocks.
FirstUseGivesHourBlocks ==
    (storage.kind = "missing" /\ status # "unmounted" /\ steps = 0) =>
        /\ status = "mounted"
        /\ DOMAIN schedule = {"Sunday", "Monday", "Tuesday", "Wednesday", "Thursday",
                              "Friday", "Saturday"}
        /\ \A d \in DOMAIN schedule : schedule[d] = HourBlocks

FirstUseGivesHourBlocksWitness ==
    /\ storage.kind = "missing" /\ status = "mounted" /\ steps = 0
    /\ timer.effect.set /\ timer.effect.value = schedule

\* C21: addTask with a non-empty text puts one task with that text and
\* done = false at the end of block i's tasks; the block's earlier tasks keep
\* their order and every other block is unchanged; with an empty or cancelled
\* prompt nothing changes.
AddTaskAppendsOne ==
    /\ last.op = "addTask" =>
          /\ last.raw # <<>>
          /\ Len(R) = Len(P)
          /\ R[I].start = P[I].start /\ R[I].span = P[I].span
          /\ Len(R[I].tasks) = Len(P[I].tasks) + 1
          /\ SubSeq(R[I].tasks, 1, Len(P[I].tasks)) = P[I].tasks
          /\ R[I].tasks[Len(R[I].tasks)] =
                [id |-> last.minted[1], text |-> last.raw, done |-> FALSE]
          /\ \A k \in 1..Len(P) : k # I => R[k] = P[k]
    /\ last.op = "addTaskCancelled" => schedule = last.pre

AddTaskAppendsOneWitness ==
    /\ last.op = "addTask" /\ P[I].tasks # <<>>
    /\ \E k \in 1..Len(P) : k # I /\ P[k].tasks # <<>>

\* the id the last updateTask / removeTask was called with
Tid == last.minted[1]

\* C22: updateTask changes, in block i, the patched field of the task whose
\* id matches and nothing else: the task keeps its place, its id and its
\* other field, the other tasks and blocks are unchanged; when block i holds
\* no task with that id the week is unchanged.
UpdateTaskPatchesInPlace ==
    last.op = "updateTask" =>
        /\ Len(R) = Len(P)
        /\ \A k \in 1..Len(P) : k # I => R[k] = P[k]
        /\ R[I].start = P[I].start /\ R[I].span = P[I].span
        /\ Len(R[I].tasks) = Len(P[I].tasks)
        /\ \A t \in 1..Len(P[I].tasks) :
              LET old == P[I].tasks[t]
                  new == R[I].tasks[t]
              IN  IF old.id # Tid THEN new = old
                  ELSE /\ new.id = old.id
                       /\ new.text = IF last.patch.field = "text" THEN last.patch.text ELSE old.text
                       /\ new.done = IF last.patch.field = "done" THEN last.patch.done ELSE old.done
        /\ Tid \notin IdsOfTasks(P[I].tasks) => schedule = last.pre

UpdateTaskPatchesInPlaceWitness ==
    /\ last.op = "updateTask" /\ schedule # last.pre
    /\ Len(P[I].tasks) >= 3 /\ P[I].tasks[1].id # Tid /\ P[I].tasks[2].id = Tid
    /\ last.patch.field = "text"
    /\ \E k \in 1..Len(P) : k # I /\ Tid \in IdsOfTasks(P[k].tasks)

\* C23: removeTask takes the task with that id out of block i; the block's
\* other tasks keep their relative order, and the block boundaries and the
\* tasks of every other block are unchanged.
RemoveTaskKeepsTheRest ==
    last.op = "removeTask" =>
        /\ Len(R) = Len(P)
        /\ \A k \in 1..Len(P) : k # I => R[k] = P[k]
        /\ R[I].start = P[I].start /\ R[I].span = P[I].span
        /\ R[I].tasks = SelectSeq(P[I].tasks, LAMBDA t : t.id # Tid)

RemoveTaskKeepsTheRestWitness ==
    /\ last.op = "removeTask" /\ schedule # last.pre
    /\ Len(P[I].tasks) >= 3 /\ P[I].tasks[2].id = Tid /\ P[I].tasks[1].id # Tid
    /\ P[I].tasks[3].id # Tid
    /\ \E k \in 1..Len(P) : k # I /\ Tid \in IdsOfTasks(P[k].tasks)

\* C24: a side that parses is a minute of day between 0 and 1439 (hour
\* clamped to 0..23, minute to 0..59); a range is accepted only when both
\* sides parse and the end is greater than the start, and it reaches the
\* splicer with 0 <= start < 1440, span >= 1 and start + span <= 1440.
AcceptedRangeIsWithinTheDay ==
    (last.op \in {"custom", "customRejected"}) =>
        /\ \A parts \in {splitRange(last.raw, <<>>)} :
              Len(parts) >= 2 =>
                \E startMin \in {parseTimeToMinutes(parts[1])},
                   endMin \in {parseTimeToMinutes(parts[2])} :
                     /\ startMin = -1 \/ startMin \in 0..1439
                     /\ endMin = -1 \/ endMin \in 0..1439
                     /\ last.op = "custom" =>
                           (startMin # -1 /\ endMin > startMin /\ S = startMin /\ E = endMin)
        /\ last.op = "custom" => (0 <= S /\ S < 1440 /\ last.span >= 1 /\ E <= 1440)
        /\ last.raw = <<"1", "2", "a", "m", "-", "7", "7">> => (S = 0 /\ E = 23 * 60)
        /\ last.raw = <<"7", ":", "7", "7", "-", "1", "P", "M">> => (S = 7 * 60 + 59 /\ E = 13 * 60)
        /\ last.raw = <<"1", "7", "7", "-", "7", "7", "7", "7">> => (S = 1 * 60 + 59 /\ E = 23 * 60 + 59)

AcceptedRangeIsWithinTheDayWitness ==
    /\ last.op = "custom"
    /\ last.raw = <<"1", "7", "7", "-", "7", "7", "7", "7">>
    /\ schedule # last.pre

\* C25: in a splice the tasks of an existing block are found in the result,
\* on a block lying within the old block and outside the range, exactly when
\* part of the old block lies outside [start, start+span); a block wholly
\* inside the range (equal to it, or aligned with one of its edges, or
\* strictly inside) gives none of its tasks to the result.
TasksSurviveOutsideTheRange ==
    (last.op = "splice" /\ ValidPartition(P) /\ ValidRange) =>
        \A k \in 1..Len(P) :
            P[k].tasks # <<>> =>
                IF P[k].start < S \/ End(P[k]) > E
                THEN \E x \in 1..Len(R) :
                        /\ R[x].tasks = P[k].tasks
                        /\ P[k].start <= R[x].start /\ End(R[x]) <= End(P[k])
                        /\ End(R[x]) <= S \/ R[x].start >= E
                ELSE IdsOfTasks(P[k].tasks) \cap IdsOfDaySlots(R) = {}

TasksSurviveOutsideTheRangeWitness ==
    /\ last.op = "splice" /\ T # <<>>
    /\ \E k \in 1..Len(P) :
          P[k].tasks # <<>> /\ P[k].start = S /\ End(P[k]) < E
    /\ \E k \in 1..Len(P) :
          P[k].tasks # <<>> /\ P[k].start < E /\ End(P[k]) > E
    /\ IdsOfDaySlots(R) # IdsOfDaySlots(P) \cup IdsOfTasks(T)

\* every task of the day, read block by block
AllTasks(slots) == TasksOf(slots, 1, Len(slots))

\* C26: mergeSlots and unmergeSlot conserve the tasks of the day: read block
\* by block in order, the sequence of all tasks is the same before and after
\* the call, and so the same as in the day that was loaded.
MergeAndSplitConserveTasks ==
    (last.op \in {"merge", "unmerge"}) =>
        /\ AllTasks(R) = AllTasks(P)
        /\ AllTasks(R) = AllTasks(Loaded)

MergeAndSplitConserveTasksWitness ==
    /\ last.op = "unmerge" /\ steps >= 2
    /\ Len(R) = Len(P) + 1
    /\ Len(P[I].tasks) >= 2
    /\ R[I].tasks = P[I].tasks /\ R[I + 1].tasks = <<>>
    /\ \E k \in 1..Len(R) : k > I + 1 /\ R[k].tasks # <<>>

\* C27: applyBlockToAllDays in replace mode leaves the source day with the
\* same block boundaries and the same (text, done) sequence in every block;
\* apart from the source block, whose tasks are replaced by their copies,
\* every block of the source day is unchanged.
ReplaceKeepsSourceDay ==
    (last.op = "apply" /\ last.mode = "replace") =>
        /\ Len(R) = Len(P)
        /\ \A k \in 1..Len(P) :
              /\ R[k].start = P[k].start /\ R[k].span = P[k].span
              /\ TextDone(R[k].tasks) = TextDone(P[k].tasks)
              /\ k # I => R[k] = P[k]
        /\ R[I].tasks = last.supplied[last.day]

ReplaceKeepsSourceDayWitness ==
    /\ last.op = "apply" /\ last.mode = "replace"
    /\ P[I].tasks # <<>>
    /\ R[I].tasks # P[I].tasks
    /\ \E k \in 1..Len(P) : k # I /\ P[k].tasks # <<>>

\* C28: splicing is idempotent: on a valid partition and a valid range,
\* replaceRangeWithSingleBlock applied a second time with the same start,
\* span and tasks returns the partition the first application returned,
\* blocks and tasks alike.
SpliceIsIdempotent ==
    (last.op = "spliceAgain" /\ ValidPartition(P) /\ ValidRange) =>
        /\ R = P
        /\ schedule = last.pre

SpliceIsIdempotentWitness ==
    /\ last.op = "spliceAgain" /\ steps = 2
    /\ T # <<>>
    /\ Len(P) >= 4
    /\ \E k \in 2..(Len(P) - 1) :
          /\ P[k] = [start |-> S, span |-> last.span, tasks |-> T]
          /\ P[k - 1].tasks # <<>> /\ P[k + 1].tasks # <<>>
          /\ P[k - 1].span % BASE # 0 /\ P[k + 1].span % BASE # 0

\* C29: applyBlockToAllDays called with a blockIndex that designates no block
\* of the source day leaves the whole weekly schedule unchanged, in either
\* mode: no day is modified.
ApplyOfNoBlockIsNoOp ==
    (last.op = "apply" /\ I \notin 1..Len(P)) =>
        /\ schedule = last.pre
        /\ \A d \in DayNames : schedule[d] = last.pre[d]

ApplyOfNoBlockIsNoOpWitness ==
    /\ last.op = "apply" /\ last.mode = "replace"
    /\ I = Len(P) + 1
    /\ P[Len(P)].tasks # <<>>
    /\ P[Len(P)].span # BASE
    /\ steps = 1

\* C30: the autosave is debounced. A change of the schedule leaves an effect
\* to run for the new schedule; that effect clears the timeout of the render
\* before and sets a new one, so at no time is more than one write pending,
\* and once every effect has run the pending write is that of the current
\* schedule; if the planner stays mounted and no handler is called any more,
\* the stored text eventually is the JSON text of the current schedule.
AutosaveIsDebounced ==
    /\ [](Len(timer.armed) <= 1)
    /\ []((~timer.effect.set /\ timer.armed # <<>>) => timer.armed = <<schedule>>)
    /\ [][schedule' # schedule => timer'.effect = On(schedule')]_vars
    /\ \A n \in 0..MaxSteps :
          (Mounted /\ steps = n) ~> (storage = JSONstringify(schedule) \/ steps > n)

AutosaveIsDebouncedWitness ==
    /\ Mounted /\ steps = MaxSteps
    /\ schedule \notin {defaultSchedule, last.pre}
    /\ storage = JSONstringify(schedule)
    /\ timer = NoTimer
    /\ Cardinality(rendered) = MaxSteps + 1

\* the state the last player event found
Pre == mlast.pre

\* C31: whenever the playing track ends while the active playlist's repeat
\* mode is off (and the last advance is at least 700 ms old), the active
\* playlist's current index becomes the previous index plus one modulo the
\* playlist's current length, whatever was edited since the player was created.
AutoAdvanceGoesToNextTrack ==
    (/\ mlast.op = "ended"
     /\ repeatModeOf(Pre.repeatByName, Pre.activeName) = "off"
     /\ ~Pre.recent
     /\ playlist # <<>>)
        => currentIdx = (currentIdxOf(Pre.idxMap, Pre.activeName) + 1) % Len(playlist)

\* C32: the repeat button only flips the active playlist's mode between off
\* and one, leaving the tracks, the current index and the player as they
\* are; when a track ends while the mode shown for the active playlist is
\* one, the same track plays again and the current index is unchanged.
RepeatOneRestartsSameTrack ==
    /\ mlast.op = "toggleRepeat" =>
          /\ repeatMode = (IF repeatModeOf(Pre.repeatByName, Pre.activeName) = "one"
                           THEN "off" ELSE "one")
          /\ playlists = Pre.playlists /\ activeName = Pre.activeName
          /\ idxMap = Pre.idxMap /\ yt = Pre.yt
    /\ (mlast.op = "ended" /\ repeatModeOf(Pre.repeatByName, Pre.activeName) = "one") =>
          /\ idxMap = Pre.idxMap
          /\ yt.video = Pre.yt.video /\ yt.state = "playing"

\* C33: after any sequence of add, remove, move, clear, play and track-ended
\* events the active playlist's current index is -1 or an index of the
\* playlist, and removing or moving a track other than the current one
\* leaves the current index on the track it was on.
CurrentIdxStaysValid ==
    /\ currentIdx = -1 \/ (0 <= currentIdx /\ currentIdx < Len(playlist))
    /\ (/\ mlast.op \in {"remove", "move"}
        /\ mlast.arg[1] # currentIdxOf(Pre.idxMap, Pre.activeName)
        /\ currentOf(Pre.playlists, Pre.idxMap, Pre.activeName) # NoVideo)
          => current = currentOf(Pre.playlists, Pre.idxMap, Pre.activeName)

\* C34: from { Default: [] }, after any sequence of createPlaylist,
\* renamePlaylist and trulyDeletePlaylist there is at least one playlist and
\* the active name is one of the keys; no call replaces a playlist that
\* exists: createPlaylist and renamePlaylist leave every playlist of another
\* name with its tracks, the renamed one keeps its tracks under the new name
\* and a taken name is refused, and a delete removes that one playlist only.
PlaylistsAreKept ==
    /\ Len(playlists) >= 1
    /\ Cardinality(names(playlists)) = Len(playlists)
    /\ activeName \in names(playlists)
    /\ mlast.op = "create" =>
          \A n \in names(Pre.playlists) :
              n \in names(playlists) /\ tracksOf(playlists, n) = tracksOf(Pre.playlists, n)
    /\ mlast.op = "rename" =>
          /\ Len(playlists) = Len(Pre.playlists)
          /\ \A n \in names(Pre.playlists) \ {mlast.arg[1]} :
                n \in names(playlists) /\ tracksOf(playlists, n) = tracksOf(Pre.playlists, n)
          /\ \E n \in names(playlists) :
                tracksOf(playlists, n) = tracksOf(Pre.playlists, mlast.arg[1])
                  /\ (n = mlast.arg[1] \/ n \notin names(Pre.playlists))
    /\ mlast.op = "delete" =>
          /\ names(Pre.playlists) \ {mlast.arg} \subseteq names(playlists)
          /\ \A n \in names(playlists) : tracksOf(playlists, n) = tracksOf(Pre.playlists, n)

PlaylistsAreKeptWitness ==
    /\ mlast.op = "create" /\ mlast.arg = <<" ", "A">>
    /\ <<"A">> \in names(Pre.playlists)
    /\ tracksOf(playlists, <<"A">>) # <<>>
    /\ DefaultName \notin names(playlists)
    /\ Len(playlists) >= 2

TPre == tlast.pre

\* the pause found a running timer: by the button, or by Space with a
\* listener that takes Space as pause
PausedRunning ==
    /\ TPre.card.running
    /\ \/ tlast.op = "pause"
       \/ /\ tlast.op = "key" /\ tlast.arg = " "
          /\ ~TPre.onKey.ended /\ TPre.onKey.running
          /\ ~TPre.onKey.editing \/ ~TPre.onKey.caretOn

\* C35: a pause of a running timer, by the Pause button or by Space, stops
\* it and sets targetMs to what remained at the pause: endTs minus the time
\* of the last frame, never more than the duration it was started with; the
\* following start takes that targetMs.
PauseKeepsRemaining ==
    PausedRunning =>
        /\ ~card.running
        /\ card.targetMs = Max(0, TPre.card.endTs - TPre.card.now)
        /\ card.targetMs <= TPre.card.lastStartMs
        /\ (IF card.editing THEN bufToMs(card.buf) ELSE card.targetMs) = card.targetMs

\* a frame found the running timer at or past its end
AlarmEntered ==
    /\ tlast.op = "frame"
    /\ TPre.card.running
    /\ Max(0, TPre.card.endTs - TPre.clock) <= 0

\* the alarm was on and Stop, Space, Enter or the timeout came
AlarmStopped ==
    /\ TPre.card.ended
    /\ \/ tlast.op \in {"stop", "timeout"}
       \/ tlast.op = "key" /\ tlast.arg \in {" ", "Enter"}

\* C36: a frame that finds a running timer with nothing remaining stops it,
\* clears endTs and enters the alarm with one timeout of 5000 ms; an alarm
\* has exactly one timeout and there is none without an alarm; the alarm
\* ends by Stop, Reset (button or keys) or the timeout and by nothing else;
\* running and ended never hold together; after Stop or the timeout the
\* timer is not running, not ended, and displays lastStartMs.
TimerEndsInAlarm ==
    /\ ~(card.running /\ card.ended)
    /\ Len(alarmRef.timeouts) = (IF card.ended THEN 1 ELSE 0)
    /\ card.ended => alarmRef.stopTimer = alarmRef.timeouts[1].id
    /\ AlarmEntered =>
          /\ ~card.running /\ card.endTs = 0 /\ card.ended
          /\ alarmRef.timeouts[1].at = TPre.clock + ALARM_MS
    /\ (TPre.card.ended /\ ~card.ended) =>
          \/ tlast.op \in {"stop", "reset", "timeout"}
          \/ tlast.op = "key" /\ tlast.arg \in {" ", "Enter", "r"}
    /\ (TPre.card.ended /\ tlast.op \in {"stop", "reset", "timeout"}) => ~card.ended
    /\ tlast.op = "timeout" => TPre.clock >= TPre.alarmRef.timeouts[1].at
    /\ AlarmStopped =>
          /\ ~card.running /\ ~card.ended /\ ~card.editing
          /\ card.targetMs = TPre.card.lastStartMs
          /\ displayBuf(card) = msToBuf(TPre.card.lastStartMs)
          /\ alarmRef = NoAlarm

TimerEndsInAlarmWitness ==
    /\ tlast.op = "timeout"
    /\ TPre.card.ended /\ TPre.card.editing
    /\ TPre.card.buf # displayBuf(card)
    /\ card.targetMs = 1000
    /\ displayBuf(card) = 1

====
